---- MODULE Spec2Model ----
(***************************************************************************)
(* The harvest engine of repo-stats-ts: run() wraps processRepositories in *)
(* withRetry; processRepositories walks the organization's repositories    *)
(* through the paginated iterator of OctokitClient.getOrgRepoStats, has    *)
(* processRepoStats aggregate each repository, writes one CSV row per      *)
(* repository and records its progress in processedState.                  *)
(*                                                                         *)
(* Repositories are named 1..orgSize; the name order is the integer order. *)
(* A page cursor is the name of the repository it points at (the last one  *)
(* of the page it ends); NULL is the null cursor.                           *)
(*                                                                         *)
(* The state module (initializeState, updateState over the file            *)
(* last_known_state.json) is modelled beside the engine: this run() does   *)
(* not call it, so StoreSpec drives it on its own, and RetrySpec runs the  *)
(* engine with the retry delays set.                                       *)
(***************************************************************************)
EXTENDS Integers, Sequences, FiniteSets, TLC

\* ---------------------------------------------------------------- bounds
MaxRepos == 3
MaxPageSize == 2
MaxAttempts == 3
MaxInterval == 2
MaxThreshold == 2
MaxDelay == 3
MaxFactor == 2
MaxNames == 2
MaxCursors == 1
MaxStamp == 1
MaxItems == 2
MaxNodes == 2
MaxSubPages == 2
MaxCap == 2
MaxProbes == 3
MaxRemaining == 1
MaxTicks == 2
MaxFiles == 2
MaxBatchSize == 2

\* ------------------------------------------------------ program constants
NULL == 0
DefaultSuccessThreshold == 5
DefaultInitialDelay == 1000
DefaultMaxDelay == 30000
DefaultBackoffFactor == 2
KbPerMb == 1024
RecordLimit == 60000
SizeLimitMb == 1500
CommitCap == 250
DefaultMaxRetries == 5
TicksPerMinute == 2

VARIABLES
    orgSize,         \* number of repositories the remote organization holds
    opts,            \* the Arguments of run()
    processedState,  \* run(): cursor, processedRepos, lastSuccessfulCursor, lastProcessedRepo
    retry,           \* withRetry(): attempt, successCount, retryCount, lastError, currentDelay
    runRetryCount,   \* run(): retryCount, incremented by the onRetry notifier
    pc,              \* where the run is
    iter,            \* the org iterator opened by processRepositories
    repo,            \* the repository processRepoStats is working on
    processedCount,  \* processRepositories(): processedCount
    rows,            \* the data rows appended to the CSV sink, in order
    thrown,          \* the error withRetry rejected with
    failures,        \* history: the messages of the failed invocations, in order
    invocations,     \* history: how often withRetry invoked the operation
    sleeps,          \* history: how often withRetry slept
    slept,           \* history: the durations withRetry slept, in order
    pagesFetched,    \* history: org pages fetched by the current attempt
    emittedAtFail,   \* history: lastProcessedRepo at each failure
    stateFile,           \* last_known_state.json on disk
    resumeFromLastSave,  \* the option handed to initializeState
    state,               \* the ProcessedPageState the state module works on
    resumeFromLastState, \* what initializeState answered
    spc,                 \* where the user of the state module is
    lastCall,            \* history: the latest updateState call
    clock,               \* new Date(): the time, in ticks
    applied,             \* the row-shaping function applied last: its input and output
    tasks,           \* processRepoStats: the two aggregations of the current repository
    orphans,         \* aggregations still running whose Promise.all has rejected
    subFetches,      \* history: the sub-page requests issued
    result,          \* the RepoStatsResult processRepoStats yielded last
    probe,           \* checkRateLimits and the governor: the probes made so far
    ticks,           \* history: for each half minute that ended, the invocations before it
    batches          \* processRepositoryBatches: its locals, and the inputs of its passes

vars == <<orgSize, opts, processedState, retry, runRetryCount, pc, iter, repo,
          processedCount, rows, thrown, failures, invocations, sleeps,
          slept, pagesFetched, emittedAtFail, stateFile, resumeFromLastSave,
          state, resumeFromLastState, spc, lastCall, clock, applied,
          tasks, orphans, subFetches, result, probe, ticks, batches>>

\* The state module's variables; no step of this run() touches them.
store == <<stateFile, resumeFromLastSave, state, resumeFromLastState, spc,
           lastCall, clock>>

\* What the steps of processRepositories' loop and of withRetry leave alone.
\* What a run of the engine, the state module and the row shaper leave
\* alone: the parts of the program exercised on their own.
aside == <<probe, ticks, batches>>

config == <<orgSize, opts, store, applied, tasks, orphans, subFetches, result,
            aside>>

Range(s) == {s[i] : i \in DOMAIN s}

Min(a, b) == IF a < b THEN a ELSE b

\* JavaScript's a || b on string-or-null cursors.
OrElse(a, b) == IF a # NULL THEN a ELSE b

\* ------------------------------------------------------------ the remote
\* Mutant: the listing comes back in descending name order.
OrgRepos_Desc(n) == [i \in 1..n |-> n + 1 - i]

\* The organization's repositories as the query orders them: by name, ascending.
OrgRepos(n) == [i \in 1..n |-> i]

\* The index of the item a cursor points at; 0 for the null cursor.
IndexOf(listing, c) ==
    IF c = NULL THEN 0
    ELSE CHOOSE i \in DOMAIN listing : listing[i] = c

\* repositories(first: size, after: cursor): the page's nodes and pageInfo.
PageAfter(listing, cursor, size) ==
    LET start == IndexOf(listing, cursor)
        stop  == Min(start + size, Len(listing))
        nodes == SubSeq(listing, start + 1, stop)
    IN  [nodes    |-> nodes,
         pageInfo |-> [endCursor   |-> IF nodes = <<>> THEN NULL
                                       ELSE nodes[Len(nodes)],
                       hasNextPage |-> stop < Len(listing)]]

\* ------------------------------------------------------------ withRetry
\* run(): retryConfig takes the delay options or their defaults and carries
\* no successThreshold (NULL: left undefined).
RetryConfigOf(o) ==
    [maxAttempts      |-> o.retryMaxAttempts,
     initialDelayMs   |-> OrElse(o.retryInitialDelay, DefaultInitialDelay),
     maxDelayMs       |-> OrElse(o.retryMaxDelay, DefaultMaxDelay),
     backoffFactor    |-> OrElse(o.retryBackoffFactor, DefaultBackoffFactor),
     successThreshold |-> NULL]

\* config.successThreshold || 5
SuccessThreshold(cfg) ==
    IF cfg.successThreshold # NULL THEN cfg.successThreshold
    ELSE DefaultSuccessThreshold

\* Mutant: the first failure is kept instead of the latest.
CaughtError_First(prev, err) == IF prev = "" THEN err ELSE prev

\* lastError = error
CaughtError(prev, err) == err

\* The catch block of withRetry: the failed invocation ends the run at
\* maxAttempts, otherwise the notifier runs and the envelope goes to sleep.
Catch(err) ==
    LET cfg  == RetryConfigOf(opts)
        last == CaughtError(retry.lastError, err)
    IN  /\ retry' = [retry EXCEPT !.successCount = 0,
                                  !.retryCount = @ + 1,
                                  !.lastError = last]
        /\ failures' = Append(failures, err)
        /\ emittedAtFail' = emittedAtFail \cup {processedState'.lastProcessedRepo}
        /\ IF retry.attempt = cfg.maxAttempts
           THEN /\ pc' = "rejected"
                /\ thrown' = [attempts |-> cfg.maxAttempts, message |-> last]
                /\ runRetryCount' = runRetryCount
           ELSE /\ pc' = "sleeping"
                /\ thrown' = thrown
                /\ runRetryCount' = runRetryCount + 1

\* The operation returned: count the success, reset at the threshold, return.
Succeed ==
    LET cfg == RetryConfigOf(opts)
        sc  == retry.successCount + 1
    IN  /\ retry' = IF sc >= SuccessThreshold(cfg)
                    THEN [retry EXCEPT !.successCount = 0, !.retryCount = 0]
                    ELSE [retry EXCEPT !.successCount = sc]
        /\ pc' = "returned"

\* currentDelay = Math.min(currentDelay * backoffFactor, maxDelayMs)
NextDelay(d, cfg) == Min(d * cfg.backoffFactor, cfg.maxDelayMs)

\* sleep(currentDelay), the delay for the next sleep, then the next
\* iteration of the attempt loop.
Sleep ==
    /\ pc = "sleeping"
    /\ sleeps' = sleeps + 1
    /\ slept' = Append(slept, retry.currentDelay)
    /\ retry' = [retry EXCEPT !.attempt = @ + 1,
                              !.currentDelay = NextDelay(@, RetryConfigOf(opts))]
    /\ pc' = "call"
    /\ UNCHANGED <<config, processedState, runRetryCount, iter, repo,
                   processedCount, rows, thrown, failures, invocations,
                   pagesFetched, emittedAtFail>>

\* ------------------------------------------------------ processedState
\* Mutant: every attempt opens the iterator at the beginning.
StartCursor_Null(st) == NULL

\* processedState.cursor || processedState.lastSuccessfulCursor
StartCursor(st) == OrElse(st.cursor, st.lastSuccessfulCursor)

\* processRepoStats: if (repo.pageInfo?.endCursor) cursor = endCursor
UpdateCursor(st, pageInfo) ==
    IF pageInfo.endCursor # NULL
    THEN [st EXCEPT !.cursor = pageInfo.endCursor]
    ELSE st

\* Mutant: the progress is not recorded after the write.
MarkProcessed_Skip(st, name) == st

\* processedRepos.add; lastProcessedRepo = name; lastSuccessfulCursor = cursor
MarkProcessed(st, name) ==
    [st EXCEPT !.processedRepos = @ \cup {name},
               !.lastProcessedRepo = name,
               !.lastSuccessfulCursor = st.cursor]

\* catch: processedState.cursor = processedState.lastSuccessfulCursor
RestoreCursor(st) == [st EXCEPT !.cursor = st.lastSuccessfulCursor]

\* processedState.processedRepos.has(result.Repo_Name)
AlreadyProcessed(st, name) == name \in st.processedRepos

\* -------------------------------------------------------- the row shaper
\* A count is the totalCount of the snapshot's connection of that name; a
\* disk size is a finite number of kilobytes or not a finite number (null,
\* undefined, NaN).
NotFinite == [finite |-> FALSE, kb |-> 0]
Kb(n) == [finite |-> TRUE, kb |-> n]

\* Mutant: the megabytes are rounded up.
ConvertKbToMb_Ceil(valueInKb) ==
    [threw |-> ~valueInKb.finite,
     mb |-> (valueInKb.kb + KbPerMb - 1) \div KbPerMb]

\* convertKbToMb: throws unless Number.isFinite, else Math.floor(kb / 1024).
ConvertKbToMb(valueInKb) ==
    [threw |-> ~valueInKb.finite, mb |-> valueInKb.kb \div KbPerMb]

\* Mutant: pull requests are counted once.
CalculateRecordCount_Once(r, issueStats, prStats) ==
    r.collaborators + r.branchProtectionRules + r.pullRequests + r.milestones
      + issueStats.totalIssuesCount + prStats.prReviewCommentCount
      + r.commitComments + issueStats.issueCommentCount
      + issueStats.issueEventCount + r.releases + r.projects

\* calculateRecordCount: the sum of the twelve counts, pullRequests twice.
CalculateRecordCount(r, issueStats, prStats) ==
    r.collaborators + r.branchProtectionRules + r.pullRequests + r.milestones
      + issueStats.totalIssuesCount + r.pullRequests
      + prStats.prReviewCommentCount + r.commitComments
      + issueStats.issueCommentCount + issueStats.issueEventCount
      + r.releases + r.projects

\* Mutant: the record limit itself is not yet an issue.
CheckIfHasMigrationIssues_Above(repoSizeMb, totalRecordCount) ==
    totalRecordCount > RecordLimit \/ repoSizeMb > SizeLimitMb

\* checkIfHasMigrationIssues
CheckIfHasMigrationIssues(repoSizeMb, totalRecordCount) ==
    IF totalRecordCount >= RecordLimit THEN TRUE
    ELSE IF repoSizeMb > SizeLimitMb THEN TRUE
    ELSE FALSE

\* The row of a repository that was not shaped.
NoRow == [Repo_Name |-> NULL]

\* Mutant: PR_Review_Count is the aggregated number of reviews.
MapToRepoStatsResult_Reviews(r, issueStats, prStats) ==
    LET size             == ConvertKbToMb(r.diskUsage)
        repoSizeMb       == size.mb
        totalRecordCount == CalculateRecordCount(r, issueStats, prStats)
        hasMigrationIssues ==
            CheckIfHasMigrationIssues(repoSizeMb, totalRecordCount)
    IN  IF size.threw THEN [threw |-> TRUE, row |-> NoRow]
        ELSE [threw |-> FALSE,
              row |-> [Repo_Name               |-> r.name,
                       Disk_Size_kb            |-> r.diskUsage.kb,
                       Repo_Size_mb            |-> repoSizeMb,
                       Record_Count            |-> totalRecordCount,
                       Collaborator_Count      |-> r.collaborators,
                       Protected_Branch_Count  |-> r.branchProtectionRules,
                       PR_Review_Count         |-> prStats.prReviewCount,
                       PR_Review_Comment_Count |-> prStats.prReviewCommentCount,
                       Commit_Comment_Count    |-> r.commitComments,
                       Milestone_Count         |-> r.milestones,
                       PR_Count                |-> r.pullRequests,
                       Project_Count           |-> r.projects,
                       Branch_Count            |-> r.branches,
                       Release_Count           |-> r.releases,
                       Issue_Count             |-> issueStats.totalIssuesCount,
                       Issue_Event_Count       |-> issueStats.issueEventCount,
                       Issue_Comment_Count     |-> issueStats.issueCommentCount,
                       Tag_Count               |-> r.tags,
                       Discussion_Count        |-> r.discussions,
                       Migration_Issue         |-> hasMigrationIssues]]

\* mapToRepoStatsResult: the row (its name and numeric columns), or threw
\* when convertKbToMb did.
MapToRepoStatsResult(r, issueStats, prStats) ==
    LET size             == ConvertKbToMb(r.diskUsage)
        repoSizeMb       == size.mb
        totalRecordCount == CalculateRecordCount(r, issueStats, prStats)
        hasMigrationIssues ==
            CheckIfHasMigrationIssues(repoSizeMb, totalRecordCount)
    IN  IF size.threw THEN [threw |-> TRUE, row |-> NoRow]
        ELSE [threw |-> FALSE,
              row |-> [Repo_Name               |-> r.name,
                       Disk_Size_kb            |-> r.diskUsage.kb,
                       Repo_Size_mb            |-> repoSizeMb,
                       Record_Count            |-> totalRecordCount,
                       Collaborator_Count      |-> r.collaborators,
                       Protected_Branch_Count  |-> r.branchProtectionRules,
                       PR_Review_Count         |-> r.pullRequests,
                       PR_Review_Comment_Count |-> prStats.prReviewCommentCount,
                       Commit_Comment_Count    |-> r.commitComments,
                       Milestone_Count         |-> r.milestones,
                       PR_Count                |-> r.pullRequests,
                       Project_Count           |-> r.projects,
                       Branch_Count            |-> r.branches,
                       Release_Count           |-> r.releases,
                       Issue_Count             |-> issueStats.totalIssuesCount,
                       Issue_Event_Count       |-> issueStats.issueEventCount,
                       Issue_Comment_Count     |-> issueStats.issueCommentCount,
                       Tag_Count               |-> r.tags,
                       Discussion_Count        |-> r.discussions,
                       Migration_Issue         |-> hasMigrationIssues]]

\* The counts a snapshot and its aggregates are made of.
CountFields ==
    {"collaborators", "branchProtectionRules", "pullRequests", "milestones",
     "commitComments", "releases", "projects", "branches", "tags",
     "discussions", "totalIssuesCount", "issueEventCount",
     "issueCommentCount", "prReviewCommentCount", "commitCommentCount",
     "prIssueEventCount", "prIssueCommentCount", "prReviewCount"}

\* The counts of a repository that holds the items t, one count each.
Tally(t) ==
    [f \in CountFields |-> Cardinality({i \in DOMAIN t : t[i] = f})]

\* The counts of the repositories holding at most MaxItems items.
Tallies == {Tally(t) : t \in [1..MaxItems -> CountFields \cup {"none"}]}

\* Disk sizes around the megabyte and around the size limit, and none.
DiskSizes ==
    {NotFinite}
      \cup {Kb(n) : n \in {0, KbPerMb - 1, KbPerMb,
                           SizeLimitMb * KbPerMb + KbPerMb - 1,
                           (SizeLimitMb + 1) * KbPerMb}}

\* The snapshot of repository name with the counts c, extra collaborators
\* and the disk size d.
Snapshot(name, c, extra, d) ==
    [name |-> name, diskUsage |-> d,
     collaborators |-> c.collaborators + extra,
     branchProtectionRules |-> c.branchProtectionRules,
     pullRequests |-> c.pullRequests, milestones |-> c.milestones,
     commitComments |-> c.commitComments, releases |-> c.releases,
     projects |-> c.projects, branches |-> c.branches, tags |-> c.tags,
     discussions |-> c.discussions]

\* IssueStatsResult and PullRequestStatsResult with the counts c.
IssueStatsOf(c) ==
    [totalIssuesCount |-> c.totalIssuesCount,
     issueEventCount |-> c.issueEventCount,
     issueCommentCount |-> c.issueCommentCount]

PrStatsOf(c) ==
    [prReviewCommentCount |-> c.prReviewCommentCount,
     commitCommentCount |-> c.commitCommentCount,
     issueEventCount |-> c.prIssueEventCount,
     issueCommentCount |-> c.prIssueCommentCount,
     prReviewCount |-> c.prReviewCount]

\* ------------------------------------------------------ the aggregations
\* A connection of a repository is the sequence `all` of its nodes in the
\* remote's order; the cursor of a node is its index, NULL before the first.

\* The sequences over S of at most n elements.
SeqsUpTo(S, n) == UNION {[1..k -> S] : k \in 0..n}

\* issues(first: $pageSize) / pullRequests(first: $pageSize) as embedded in
\* the repository snapshot.
Connection(all, first) ==
    LET nodes == SubSeq(all, 1, Min(first, Len(all)))
    IN  [totalCount |-> Len(all),
         nodes      |-> nodes,
         pageInfo   |-> [hasNextPage |-> Len(nodes) < Len(all),
                         endCursor   |-> IF nodes = <<>> THEN NULL
                                         ELSE Len(nodes)]]

\* getRepoIssues / getRepoPullRequests: the cursors of the nodes the
\* paginated query yields after the given cursor, page after page.
NodesAfter(all, cursor) == [i \in 1..(Len(all) - cursor) |-> cursor + i]

\* Mutant: the sub-pagination starts at the beginning of the connection.
SubPagination_Restart(connection) ==
    [started |-> connection.totalCount > 0
                   /\ connection.pageInfo.hasNextPage
                   /\ connection.pageInfo.endCursor # NULL,
     cursor  |-> NULL]

\* totalCount > 0 && pageInfo.hasNextPage && pageInfo.endCursor != null:
\* whether further pages are fetched, and from which cursor.
SubPagination(connection) ==
    [started |-> connection.totalCount > 0
                   /\ connection.pageInfo.hasNextPage
                   /\ connection.pageInfo.endCursor # NULL,
     cursor  |-> connection.pageInfo.endCursor]

\* The running total of a sequence of numbers, as a reduce or a loop with
\* += computes it.
RECURSIVE Accumulate(_)
Accumulate(q) ==
    IF q = <<>> THEN 0
    ELSE Accumulate(SubSeq(q, 1, Len(q) - 1)) + q[Len(q)]

\* Mutant: only the embedded first page is counted.
AnalyzeIssues_FirstPage(issues, all) ==
    LET Sum(q, f(_)) == Accumulate([i \in DOMAIN q |-> f(q[i])])
        comments(n) == n.comments
        timeline(n) == n.timeline
    IN  [totalIssuesCount  |-> issues.totalCount,
         issueEventCount   |-> Sum(issues.nodes, timeline)
                                 - Sum(issues.nodes, comments),
         issueCommentCount |-> Sum(issues.nodes, comments),
         started |-> FALSE, cursor |-> NULL, fetched |-> <<>>]

\* analyzeIssues: the aggregates, and whether, from which cursor and which
\* nodes it fetched beyond the embedded ones.
AnalyzeIssues(issues, all) ==
    LET Sum(q, f(_)) == Accumulate([i \in DOMAIN q |-> f(q[i])])
        comments(n) == n.comments
        timeline(n) == n.timeline
        events(i)   == all[i].timeline - all[i].comments
        more(i)     == all[i].comments
        sub         == SubPagination(issues)
        fetched     == IF sub.started THEN NodesAfter(all, sub.cursor)
                       ELSE <<>>
    IN  IF issues.totalCount <= 0
        THEN [totalIssuesCount |-> 0, issueEventCount |-> 0,
              issueCommentCount |-> 0,
              started |-> FALSE, cursor |-> NULL, fetched |-> <<>>]
        ELSE [totalIssuesCount  |-> issues.totalCount,
              issueEventCount   |-> Sum(issues.nodes, timeline)
                                      - Sum(issues.nodes, comments)
                                      + Sum(fetched, events),
              issueCommentCount |-> Sum(issues.nodes, comments)
                                      + Sum(fetched, more),
              started |-> sub.started, cursor |-> sub.cursor,
              fetched |-> fetched]

\* Mutant: every commit counts as a redundant event.
RedundantEventCount_Uncapped(pr) == pr.comments + pr.commits

\* commentCount + (commitCount > 250 ? 250 : commitCount)
RedundantEventCount(pr) ==
    pr.comments + (IF pr.commits > CommitCap THEN CommitCap ELSE pr.commits)

\* analyzePullRequests: the aggregates over the embedded nodes and over the
\* nodes fetched beyond them.
AnalyzePullRequests(pullRequests, all) ==
    LET Sum(q, f(_)) == Accumulate([i \in DOMAIN q |-> f(q[i])])
        sub      == SubPagination(pullRequests)
        fetched  == IF sub.started THEN NodesAfter(all, sub.cursor) ELSE <<>>
        nodes    == pullRequests.nodes \o [i \in DOMAIN fetched |-> all[fetched[i]]]
        events(pr)   == pr.timeline - RedundantEventCount(pr)
        comments(pr) == pr.comments
        reviews(pr)  == pr.reviews.totalCount
        commits(pr)  == pr.commits
        one(c)       == c
        reviewComments(pr) == Sum(pr.reviews.nodes, one)
    IN  IF pullRequests.totalCount <= 0
        THEN [prReviewCommentCount |-> 0, commitCommentCount |-> 0,
              issueEventCount |-> 0, issueCommentCount |-> 0,
              prReviewCount |-> 0,
              started |-> FALSE, cursor |-> NULL, fetched |-> <<>>]
        ELSE [prReviewCommentCount |-> Sum(nodes, reviewComments),
              commitCommentCount   |-> Sum(nodes, commits),
              issueEventCount      |-> Sum(nodes, events),
              issueCommentCount    |-> Sum(nodes, comments),
              prReviewCount        |-> Sum(nodes, reviews),
              started |-> sub.started, cursor |-> sub.cursor,
              fetched |-> fetched]

\* Issue nodes: timeline and comments totals.
IssueNodes == [timeline : 0..MaxItems, comments : 0..1]

\* The reviews(first: $pageSize) of a pull request: the total and the
\* comments totals of the first page's review nodes.
ReviewConnections ==
    {[totalCount |-> 0, nodes |-> <<>>],
     [totalCount |-> 1, nodes |-> <<1>>],
     [totalCount |-> 2, nodes |-> <<1>>]}

\* Pull-request nodes: few or many timeline events, commits around the cap.
PullRequestNodes ==
    [timeline : {0, CommitCap + MaxItems}, comments : 0..1,
     commits : {0, CommitCap, CommitCap + 1}, reviews : ReviewConnections]

\* No row-shaping function applied yet.
ShapeStart == applied = [fn |-> "none"]

\* ------------------------------------------------------------------ Init
\* --------------------------------------------------- the state module
\* Repository names are 1..MaxNames, cursors 1..MaxCursors, timestamps the
\* positive integers (stored ones 1..MaxStamp); NULL stands for null and for
\* a key that is not there.

\* initializeState: the state of a new run.
DefaultState ==
    [currentCursor |-> NULL, processedRepos |-> <<>>,
     lastSuccessfulCursor |-> NULL, lastProcessedRepo |-> NULL,
     lastUpdated |-> NULL, completedSuccessfully |-> FALSE,
     outputFileName |-> NULL, lastSuccessTimestamp |-> NULL,
     processedReposIsArray |-> TRUE]

\* No file, a file that cannot be read, a file that is not JSON.
Absent == [kind |-> "absent", data |-> DefaultState]
Unreadable == [kind |-> "unreadable", data |-> DefaultState]
Unparsable == [kind |-> "unparsable", data |-> DefaultState]

\* A file holding the JSON object d.
JsonFile(d) == [kind |-> "json", data |-> d]

\* Sequences over S without a repeated element.
RECURSIVE Arrangements(_)
Arrangements(S) ==
    IF S = {} THEN {<<>>}
    ELSE {<<>>} \cup UNION {{<<x>> \o t : t \in Arrangements(S \ {x})} : x \in S}

\* The JSON objects a state file may hold: processedRepos an array without
\* repetition, or missing / not an array (processedReposIsArray FALSE).
StoredObjects ==
    {d \in [currentCursor : 0..MaxCursors,
            processedRepos : Arrangements(1..MaxNames),
            lastSuccessfulCursor : 0..MaxCursors,
            lastProcessedRepo : 0..MaxNames,
            lastUpdated : 0..MaxStamp,
            completedSuccessfully : BOOLEAN,
            outputFileName : {NULL},
            lastSuccessTimestamp : 0..MaxStamp,
            processedReposIsArray : BOOLEAN] :
        /\ ~d.processedReposIsArray => d.processedRepos = <<>>
        /\ d.lastUpdated = NULL \/ d.lastSuccessTimestamp = NULL}

StoredFiles == {Absent, Unreadable, Unparsable} \cup {JsonFile(d) : d \in StoredObjects}

\* existsSync(LAST_STATE_FILE)
Exists(file) == file.kind # "absent"

\* [...new Set(processedRepos)]: the first occurrence of each element.
RECURSIVE Unique(_)
Unique(q) ==
    IF q = <<>> THEN <<>>
    ELSE LET front == Unique(SubSeq(q, 1, Len(q) - 1))
             x     == q[Len(q)]
         IN  IF x \in Range(front) THEN front ELSE Append(front, x)

\* Mutant: a file without a processedRepos array counts as a failed load.
LoadLastState_Strict(file) ==
    IF file.kind = "unreadable"
    THEN [threw |-> TRUE, found |-> FALSE, state |-> DefaultState]
    ELSE IF file.kind = "json" /\ file.data.processedReposIsArray
    THEN [threw |-> FALSE, found |-> TRUE,
          state |-> [file.data EXCEPT
                       !.processedRepos = Unique(@),
                       !.lastUpdated = file.data.lastSuccessTimestamp]]
    ELSE [threw |-> FALSE, found |-> FALSE, state |-> DefaultState]

\* loadLastState: threw when an error left it, found when it returned a state.
\* An unreadable file makes readFileSync throw in the try block and again in
\* the catch block's debug message; an unparsable one makes JSON.parse throw,
\* which the catch block logs.
LoadLastState(file) ==
    IF file.kind = "absent"
    THEN [threw |-> FALSE, found |-> FALSE, state |-> DefaultState]
    ELSE IF file.kind = "unreadable"
    THEN [threw |-> TRUE, found |-> FALSE, state |-> DefaultState]
    ELSE IF file.kind = "unparsable"
    THEN [threw |-> FALSE, found |-> FALSE, state |-> DefaultState]
    ELSE LET parsedState == file.data
             repos == IF parsedState.processedReposIsArray
                      THEN parsedState.processedRepos
                      ELSE <<>>
         IN  [threw |-> FALSE, found |-> TRUE,
              state |-> [parsedState EXCEPT
                           !.processedRepos = Unique(repos),
                           !.processedReposIsArray = TRUE,
                           !.lastUpdated = parsedState.lastSuccessTimestamp]]

\* Mutant: a stored run that did not complete is resumed whether or not the
\* caller asked for it.
InitializeState_Always(file, resume) ==
    LET lastState == LoadLastState(file)
    IN  IF Exists(file) /\ lastState.found
            /\ ~lastState.state.completedSuccessfully
        THEN [threw |-> FALSE, processedState |-> lastState.state,
              resumeFromLastState |-> TRUE]
        ELSE [threw |-> Exists(file) /\ lastState.threw,
              processedState |-> DefaultState, resumeFromLastState |-> FALSE]

\* Mutant: a completed run is resumed like any other.
InitializeState_Completed(file, resume) ==
    LET lastState == LoadLastState(file)
    IN  IF Exists(file) /\ ~lastState.threw /\ resume /\ lastState.found
        THEN [threw |-> FALSE, processedState |-> lastState.state,
              resumeFromLastState |-> TRUE]
        ELSE [threw |-> Exists(file) /\ lastState.threw,
              processedState |-> DefaultState, resumeFromLastState |-> FALSE]

\* initializeState({resumeFromLastSave}): the state to work on and whether it
\* resumes the stored one; threw when loadLastState's error passed through.
InitializeState(file, resume) ==
    LET lastState == LoadLastState(file)
        isNewRun  == lastState.found /\ lastState.state.completedSuccessfully
    IN  IF ~Exists(file)
        THEN [threw |-> FALSE, processedState |-> DefaultState,
              resumeFromLastState |-> FALSE]
        ELSE IF lastState.threw
        THEN [threw |-> TRUE, processedState |-> DefaultState,
              resumeFromLastState |-> FALSE]
        ELSE IF ~isNewRun /\ resume /\ lastState.found
        THEN [threw |-> FALSE, processedState |-> lastState.state,
              resumeFromLastState |-> TRUE]
        ELSE [threw |-> FALSE, processedState |-> DefaultState,
              resumeFromLastState |-> FALSE]

\* Mutant: a new name goes to the front of processedRepos.
UpdateState_Front(st, repoName, newCursor, lastSuccessfulCursor, now) ==
    [st EXCEPT
        !.currentCursor = IF newCursor # NULL /\ newCursor # st.currentCursor
                          THEN newCursor ELSE @,
        !.lastSuccessfulCursor = IF lastSuccessfulCursor # NULL
                                 THEN lastSuccessfulCursor ELSE @,
        !.processedRepos = IF repoName # NULL /\ repoName \notin Range(@)
                           THEN <<repoName>> \o @ ELSE @,
        !.lastProcessedRepo = IF repoName # NULL THEN repoName ELSE @,
        !.lastUpdated = now]

\* Mutant: the name is pushed without the membership test.
UpdateState_Push(st, repoName, newCursor, lastSuccessfulCursor, now) ==
    [st EXCEPT
        !.currentCursor = IF newCursor # NULL /\ newCursor # st.currentCursor
                          THEN newCursor ELSE @,
        !.lastSuccessfulCursor = IF lastSuccessfulCursor # NULL
                                 THEN lastSuccessfulCursor ELSE @,
        !.processedRepos = IF repoName # NULL THEN Append(@, repoName) ELSE @,
        !.lastProcessedRepo = IF repoName # NULL THEN repoName ELSE @,
        !.lastUpdated = now]

\* updateState: the in-memory updates, in the order of the code.
UpdateState(st, repoName, newCursor, lastSuccessfulCursor, now) ==
    [st EXCEPT
        !.currentCursor = IF newCursor # NULL /\ newCursor # st.currentCursor
                          THEN newCursor ELSE @,
        !.lastSuccessfulCursor = IF lastSuccessfulCursor # NULL
                                 THEN lastSuccessfulCursor ELSE @,
        !.processedRepos = IF repoName # NULL /\ repoName \notin Range(@)
                           THEN Append(@, repoName) ELSE @,
        !.lastProcessedRepo = IF repoName # NULL THEN repoName ELSE @,
        !.lastUpdated = now]

\* How writeFileSync may end: the file written, an error before anything was
\* written, an error after the file was truncated.
WriteOutcomes == {"written", "failed", "torn"}

\* Mutant: the error of the write leaves saveLastState.
SaveLastState_Rethrow(file, st, outcome) ==
    [file  |-> IF outcome = "written" THEN JsonFile(st)
               ELSE IF outcome = "torn" THEN Unparsable ELSE file,
     threw |-> outcome # "written"]

\* saveLastState: the file afterwards; the catch block logs the error, so
\* none leaves the function.
SaveLastState(file, st, outcome) ==
    [file  |-> IF outcome = "written" THEN JsonFile(st)
               ELSE IF outcome = "torn" THEN Unparsable ELSE file,
     threw |-> FALSE]

\* The states a caller may hand to updateState: any cursors, processed
\* repositories and last processed repository, of a run completed or not,
\* with or without an output file name (1 stands for a name), last updated
\* before the call.
HandedStates ==
    [currentCursor : 0..MaxCursors,
     processedRepos : Arrangements(1..MaxNames),
     lastSuccessfulCursor : 0..MaxCursors,
     lastProcessedRepo : 0..MaxNames,
     lastUpdated : {MaxStamp},
     completedSuccessfully : BOOLEAN,
     outputFileName : {NULL, 1},
     lastSuccessTimestamp : {NULL},
     processedReposIsArray : {TRUE}]

\* No updateState call yet.
NoCall ==
    [repoName |-> NULL, newCursor |-> NULL, lastSuccessfulCursor |-> NULL,
     outcome |-> "none", threw |-> FALSE, before |-> DefaultState,
     file |-> Absent]

\* The state module before its first call, at a time later than every stored
\* timestamp.
StoreStart ==
    /\ state = DefaultState
    /\ resumeFromLastState = FALSE
    /\ spc = "start"
    /\ lastCall = NoCall
    /\ clock = MaxStamp + 1

\* The state files a run of the engine is started against: none, the file of
\* a completed run, the file of an interrupted one.
RunStoredFiles ==
    {Absent,
     JsonFile([DefaultState EXCEPT !.completedSuccessfully = TRUE,
                                   !.processedRepos = <<1>>,
                                   !.lastProcessedRepo = 1,
                                   !.lastSuccessfulCursor = 1,
                                   !.lastUpdated = 1]),
     JsonFile([DefaultState EXCEPT !.processedRepos = <<1>>,
                                   !.lastProcessedRepo = 1,
                                   !.currentCursor = 1,
                                   !.lastSuccessfulCursor = 1,
                                   !.lastUpdated = 1])}

\* ------------------------------------------------------ the rate limits
\* A quota is a number of requests; the remote's sentinel is beyond the
\* 32-bit integers, so a quota is kept as hi * 100000 + lo.
Quota(n) == [hi |-> 0, lo |-> n]

\* graphQLRemaining: 9999999999, coreRemaining: 9999999999
DisabledRemaining == [hi |-> 99999, lo |-> 99999]

\* What GET /rate_limit can answer: the request is rejected, rate limiting
\* is not enabled, a body without resources, the two remaining quotas.
RateLimitResponses ==
    {[kind |-> "rejected", graphql |-> 0, core |-> 0],
     [kind |-> "disabled", graphql |-> 0, core |-> 0],
     [kind |-> "noResources", graphql |-> 0, core |-> 0]}
    \cup [kind : {"data"}, graphql : 0..MaxRemaining, core : 0..MaxRemaining]

\* Mutant: a remote without rate limiting is read like one without quota.
GetRateLimitData_Zero(response) ==
    IF response.kind = "data"
    THEN [graphQLRemaining |-> Quota(response.graphql),
          coreRemaining |-> Quota(response.core), message |-> ""]
    ELSE [graphQLRemaining |-> Quota(0), coreRemaining |-> Quota(0),
          message |-> ""]

\* getRateLimitData, for a request that was answered.
GetRateLimitData(response) ==
    IF response.kind = "disabled"
    THEN [graphQLRemaining |-> DisabledRemaining,
          coreRemaining |-> DisabledRemaining,
          message |-> "API rate limiting is not enabled."]
    ELSE IF response.kind = "data"
    THEN [graphQLRemaining |-> Quota(response.graphql),
          coreRemaining |-> Quota(response.core), message |-> ""]
    ELSE [graphQLRemaining |-> Quota(0), coreRemaining |-> Quota(0),
          message |-> ""]

\* The RateLimitResult checkRateLimits starts from.
NoRateLimitResult ==
    [apiRemainingRequest |-> Quota(0), graphQLRemaining |-> Quota(0),
     message |-> "", messageType |-> "info", slept |-> FALSE]

\* checkRateLimits(sleepSeconds, maxRetries): the result, and whether it
\* slept sleepSeconds before returning.  sleepCounter is a local of the call.
CheckRateLimits(response, maxRetries) ==
    LET rateLimitCheck == GetRateLimitData(response)
        sleepCounter   == 0 + 1
        fetched == [NoRateLimitResult EXCEPT
                     !.graphQLRemaining = rateLimitCheck.graphQLRemaining,
                     !.apiRemainingRequest = rateLimitCheck.coreRemaining]
    IN  IF response.kind = "rejected"
        THEN [NoRateLimitResult EXCEPT !.message = "API error",
                                       !.messageType = "error"]
        ELSE IF rateLimitCheck.message # ""
        THEN [fetched EXCEPT !.message = rateLimitCheck.message]
        ELSE IF rateLimitCheck.graphQLRemaining = Quota(0)
        THEN IF sleepCounter > maxRetries
             THEN [fetched EXCEPT !.message = "Exceeded maximum retry attempts",
                                 !.messageType = "error"]
             ELSE [fetched EXCEPT !.message = "We have run out of GraphQL calls",
                                 !.messageType = "warning",
                                 !.slept = TRUE]
        ELSE [fetched EXCEPT !.message = "Rate limits remaining"]

\* checkAndHandleRateLimits on the probe's result: it returns false
\* (continue), returns true (pause: the loop body throws) or throws (fatal).
CheckAndHandleRateLimits(rateLimits) ==
    IF rateLimits.graphQLRemaining = Quota(0)
         \/ rateLimits.apiRemainingRequest = Quota(0)
    THEN IF rateLimits.messageType = "error" THEN "fatal" ELSE "pause"
    ELSE "continue"

\* The remote reports no GraphQL quota left.
Exhausted(response) ==
    \/ response.kind = "noResources"
    \/ response.kind = "data" /\ response.graphql = 0

\* No probe made yet.
ProbeStart ==
    probe = [maxRetries |-> DefaultMaxRetries, calls |-> 0, streak |-> 0,
             response |-> [kind |-> "none", graphql |-> 0, core |-> 0],
             result |-> NoRateLimitResult, directive |-> "none"]

\* ------------------------------------------------------------ the sink
\* Time is counted in half minutes since the run started.

\* generateRepoStatsFileName: the organization's name and the time of the
\* call cut to the minute; the name is given by the minute.
GenerateRepoStatsFileName(now) == now \div TicksPerMinute

\* The time at which withRetry made its a-th invocation.
InvokedAt(a) == Cardinality({i \in DOMAIN ticks : ticks[i] < a})

\* A line of a CSV file.
HeaderRow == [header |-> TRUE, name |-> NULL]
CsvRow(name) == [header |-> FALSE, name |-> name]

\* writeResultToCsv: the header when the file does not exist, then the row.
WriteResultToCsv(files, fileName, name) ==
    IF fileName \in DOMAIN files
    THEN [files EXCEPT ![fileName] = Append(@, CsvRow(name))]
    ELSE files @@ (fileName :> <<HeaderRow, CsvRow(name)>>)

\* The files on disk after the rows rs were written, each to the file that
\* its attempt named when processRepositories was invoked.
RECURSIVE Sink(_)
Sink(rs) ==
    IF rs = <<>> THEN [f \in {} |-> <<>>]
    ELSE LET r == rs[Len(rs)]
         IN  WriteResultToCsv(Sink(SubSeq(rs, 1, Len(rs) - 1)),
                 GenerateRepoStatsFileName(InvokedAt(r.attempt)), r.name)

\* No half minute has ended yet.
SinkStart == ticks = <<>>

\* ------------------------------------------------------ the batch files
\* A batch file is named by its batch and by how often it was rewritten as
\* a retry file.
BatchFile(n) == [batch |-> n, retry |-> 0]

\* handleFailedProcessing: the retry file written for a failed file.
RetryFileOf(fileName) == [fileName EXCEPT !.retry = @ + 1]

\* Mutant: the repositories left after the last full batch are dropped.
CreateBatchFiles_FullOnly(repos, batchSize) ==
    [k \in 1..(Len(repos) \div batchSize) |->
        SubSeq(repos, (k - 1) * batchSize + 1, k * batchSize)]

\* createBatchFiles: the loop over the iterated repositories, then the
\* remaining batch; processBatch returns at once on an empty batch, else
\* writes file number batchCount + 1.  The result is the contents of the
\* files written, by number.
RECURSIVE CreateBatchFiles_Loop(_, _, _)
CreateBatchFiles_Loop(repos, batchSize, st) ==
    IF st.repoCount = Len(repos) THEN st
    ELSE LET batch     == Append(st.batch, repos[st.repoCount + 1])
             repoCount == st.repoCount + 1
         IN  CreateBatchFiles_Loop(repos, batchSize,
                 IF repoCount % batchSize = 0
                 THEN [repoCount |-> repoCount,
                       files |-> IF batch = <<>> THEN st.files
                                 ELSE Append(st.files, batch),
                       batch |-> <<>>]
                 ELSE [repoCount |-> repoCount, files |-> st.files,
                       batch |-> batch])

CreateBatchFiles(repos, batchSize) ==
    LET st == CreateBatchFiles_Loop(repos, batchSize,
                  [repoCount |-> 0, files |-> <<>>, batch |-> <<>>])
    IN  IF st.batch = <<>> THEN st.files ELSE Append(st.files, st.batch)

\* What becomes of a file in a pass: gh repo-stats succeeds; it fails with
\* repositories left unprocessed (a retry file is written); it fails with
\* none left.
Outcomes == {"success", "retry", "failed"}

\* runRepoStatsForBatches: nothing is done without the gh repo-stats tool;
\* otherwise the files are processed in order.
RECURSIVE RunRepoStatsForBatches(_, _, _)
RunRepoStatsForBatches(fileNames, installed, outcome) ==
    IF ~installed \/ fileNames = <<>>
    THEN [successCount |-> 0, failureCount |-> 0, filesToRetry |-> <<>>]
    ELSE LET n    == Len(fileNames)
             done == RunRepoStatsForBatches(SubSeq(fileNames, 1, n - 1),
                                            installed, outcome)
         IN  IF outcome[n] = "success"
             THEN [done EXCEPT !.successCount = @ + 1]
             ELSE [done EXCEPT
                     !.failureCount = @ + 1,
                     !.filesToRetry =
                        IF outcome[n] = "retry"
                        THEN Append(@, RetryFileOf(fileNames[n])) ELSE @]

\* Mutant: the retry files of all passes are kept.
CalculateFinalResults_Keeps(results) ==
    [successCount |-> Accumulate([i \in DOMAIN results |-> results[i].successCount]),
     failureCount |-> Accumulate([i \in DOMAIN results |-> results[i].failureCount]),
     filesToRetry |-> IF results = <<>> THEN <<>>
                      ELSE results[1].filesToRetry]

\* calculateFinalResults: the counts summed, the retry files of the last pass.
CalculateFinalResults(results) ==
    [successCount |-> Accumulate([i \in DOMAIN results |-> results[i].successCount]),
     failureCount |-> Accumulate([i \in DOMAIN results |-> results[i].failureCount]),
     filesToRetry |-> IF results = <<>> THEN <<>>
                      ELSE results[Len(results)].filesToRetry]

\* The ProcessingSummary processRepositoryBatches returns.
Summary(results, totalRetried) ==
    LET finalResults == CalculateFinalResults(results)
    IN  [initiallyProcessed   |-> IF results = <<>> THEN 0
                                  ELSE results[1].successCount,
         totalRetried         |-> totalRetried,
         totalSuccess         |-> finalResults.successCount,
         totalFailures        |-> finalResults.failureCount,
         remainingUnprocessed |-> Len(finalResults.filesToRetry),
         totalAttempts        |-> Len(results)]

\* processRepositoryBatches when it is called.
Called(fileNames, maxAttempts) ==
    [maxAttempts |-> maxAttempts, attempt |-> 1,
     currentFileNames |-> fileNames, results |-> <<>>, totalRetried |-> 0,
     inputs |-> <<>>, returned |-> FALSE, summary |-> Summary(<<>>, 0)]

\* No batch run.
BatchStart == batches = Called(<<>>, 0)

AsideStart == ProbeStart /\ SinkStart /\ BatchStart

\* An aggregation that has not been started.
Idle == [status |-> "idle", left |-> 0]

\* No repository has been analyzed yet.
AnalysisStart ==
    /\ tasks = [issues |-> Idle, pullRequests |-> Idle, diskUsage |-> Kb(0)]
    /\ orphans = {}
    /\ subFetches = {}
    /\ result = NoRow

\* The state run() and withRetry() construct before the first invocation.
Start ==
    /\ processedState = [cursor |-> NULL, processedRepos |-> {},
                         lastSuccessfulCursor |-> NULL,
                         lastProcessedRepo |-> NULL]
    /\ retry = [attempt |-> 1, successCount |-> 0, retryCount |-> 0,
                lastError |-> "",
                currentDelay |-> RetryConfigOf(opts).initialDelayMs]
    /\ runRetryCount = 0
    /\ pc = "call"
    /\ iter = [cursor |-> NULL, nextPageExists |-> FALSE, nodes |-> <<>>,
               pageInfo |-> [endCursor |-> NULL, hasNextPage |-> FALSE],
               idx |-> 1]
    /\ repo = NULL
    /\ processedCount = 0
    /\ rows = <<>>
    /\ thrown = [attempts |-> 0, message |-> ""]
    /\ failures = <<>>
    /\ invocations = 0
    /\ sleeps = 0
    /\ slept = <<>>
    /\ pagesFetched = 0
    /\ emittedAtFail = {}

\* A run with the delay options left unset.
Init ==
    /\ orgSize \in 0..MaxRepos
    /\ opts \in [pageSize : 1..MaxPageSize,
                 retryMaxAttempts : 1..MaxAttempts,
                 retrySuccessThreshold : 1..MaxThreshold,
                 rateLimitCheckInterval : 1..MaxInterval,
                 retryInitialDelay : {NULL},
                 retryMaxDelay : {NULL},
                 retryBackoffFactor : {NULL}]
    /\ stateFile \in RunStoredFiles
    /\ resumeFromLastSave = TRUE
    /\ StoreStart
    /\ ShapeStart
    /\ AsideStart
    /\ AnalysisStart
    /\ Start

\* ------------------------------------------------ processRepositories
\* withRetry invokes the operation; processRepositories opens the iterator.
Invoke ==
    /\ pc = "call"
    /\ retry.attempt <= RetryConfigOf(opts).maxAttempts
    /\ iter' = [cursor |-> StartCursor(processedState),
                nextPageExists |-> TRUE, nodes |-> <<>>,
                pageInfo |-> [endCursor |-> NULL, hasNextPage |-> FALSE],
                idx |-> 1]
    /\ processedCount' = 0
    /\ pagesFetched' = 0
    /\ invocations' = invocations + 1
    /\ pc' = "walk"
    /\ UNCHANGED <<config, processedState, retry, runRetryCount, repo, rows,
                   thrown, failures, sleeps, slept, emittedAtFail>>

\* The iterator requests the page after its cursor and receives it.
FetchPageOk ==
    /\ pc = "walk"
    /\ iter.idx > Len(iter.nodes)
    /\ iter.nextPageExists
    /\ LET p == PageAfter(OrgRepos(orgSize), iter.cursor, opts.pageSize)
       IN  iter' = [cursor |-> p.pageInfo.endCursor,
                    nextPageExists |-> p.pageInfo.hasNextPage,
                    nodes |-> p.nodes, pageInfo |-> p.pageInfo, idx |-> 1]
    /\ pagesFetched' = pagesFetched + 1
    /\ UNCHANGED <<config, processedState, retry, runRetryCount, pc, repo,
                   processedCount, rows, thrown, failures, invocations,
                   sleeps, slept, emittedAtFail>>

\* The page request fails: the error leaves the generators and the for-await
\* statement of processRepositories, outside its try block.
FetchPageFail ==
    /\ pc = "walk"
    /\ iter.idx > Len(iter.nodes)
    /\ iter.nextPageExists
    /\ processedState' = processedState
    /\ Catch("fetch")
    /\ UNCHANGED <<config, iter, repo, processedCount, rows, invocations,
                   sleeps, slept, pagesFetched>>

\* processRepoStats receives the next repository and records its page cursor.
NextRepo ==
    /\ pc = "walk"
    /\ iter.idx <= Len(iter.nodes)
    /\ repo' = iter.nodes[iter.idx]
    /\ iter' = [iter EXCEPT !.idx = @ + 1]
    /\ processedState' = UpdateCursor(processedState, iter.pageInfo)
    /\ pc' = "aggregate"
    /\ UNCHANGED <<config, retry, runRetryCount, processedCount, rows, thrown,
                   failures, invocations, sleeps, slept, pagesFetched, emittedAtFail>>

\* Both aggregations complete, the row is shaped and yielded.
AggregateOk ==
    /\ pc = "aggregate"
    /\ pc' = "body"
    /\ UNCHANGED <<config, processedState, retry, runRetryCount, iter, repo,
                   processedCount, rows, thrown, failures, invocations,
                   sleeps, slept, pagesFetched, emittedAtFail>>

\* An aggregation (or the row shaper) throws inside processRepoStats: the
\* error reaches processRepositories at the for-await, outside its try block.
AggregateFail ==
    /\ pc = "aggregate"
    /\ processedState' = processedState
    /\ Catch("aggregation")
    /\ UNCHANGED <<config, iter, repo, processedCount, rows, invocations,
                   sleeps, slept, pagesFetched>>

\* Loop body without a failure: a repository written by an earlier attempt is
\* skipped (continue); otherwise the row is appended, the progress recorded,
\* and every rateLimitCheckInterval-th row is followed by the rate-limit check.
ProcessResult ==
    /\ pc = "body"
    /\ IF AlreadyProcessed(processedState, repo)
       THEN /\ pc' = "walk"
            /\ UNCHANGED <<processedState, rows, processedCount>>
       ELSE /\ processedState' = MarkProcessed(processedState, repo)
            /\ rows' = Append(rows,
                   [name |-> repo, attempt |-> retry.attempt,
                    cursor |-> processedState'.lastSuccessfulCursor])
            /\ processedCount' = processedCount + 1
            /\ pc' = IF processedCount' % opts.rateLimitCheckInterval = 0
                     THEN "probe" ELSE "walk"
    /\ UNCHANGED <<config, retry, runRetryCount, iter, repo, thrown, failures,
                   invocations, sleeps, slept, pagesFetched, emittedAtFail>>

\* Mutant: the repository is marked although its write failed.
WriteRowFail_Marks ==
    /\ pc = "body"
    /\ ~AlreadyProcessed(processedState, repo)
    /\ processedState' = RestoreCursor(MarkProcessed(processedState, repo))
    /\ Catch("write")
    /\ UNCHANGED <<config, iter, repo, processedCount, rows, invocations,
                   sleeps, slept, pagesFetched>>

\* Loop body: writeResultToCsv throws; the catch block restores the cursor.
WriteRowFail ==
    /\ pc = "body"
    /\ ~AlreadyProcessed(processedState, repo)
    /\ processedState' = RestoreCursor(processedState)
    /\ Catch("write")
    /\ UNCHANGED <<config, iter, repo, processedCount, rows, invocations,
                   sleeps, slept, pagesFetched>>

\* checkAndHandleRateLimits returns false: quota remains.
ProbeContinue ==
    /\ pc = "probe"
    /\ pc' = "walk"
    /\ UNCHANGED <<config, processedState, retry, runRetryCount, iter, repo,
                   processedCount, rows, thrown, failures, invocations,
                   sleeps, slept, pagesFetched, emittedAtFail>>

\* A quota is exhausted: checkAndHandleRateLimits returns true (the body
\* throws "rate limit") or throws itself ("rate limit fatal"); either error
\* is thrown inside the try block.
ProbeExhausted ==
    /\ pc = "probe"
    /\ processedState' = RestoreCursor(processedState)
    /\ \E msg \in {"rate limit", "rate limit fatal"} : Catch(msg)
    /\ UNCHANGED <<config, iter, repo, processedCount, rows, invocations,
                   sleeps, slept, pagesFetched>>

\* The iterator is exhausted: processRepositories returns, withRetry succeeds.
IteratorDone ==
    /\ pc = "walk"
    /\ iter.idx > Len(iter.nodes)
    /\ ~iter.nextPageExists
    /\ Succeed
    /\ UNCHANGED <<config, processedState, runRetryCount, iter, repo,
                   processedCount, rows, thrown, failures, invocations,
                   sleeps, slept, pagesFetched, emittedAtFail>>

\* What processRepositories returns when the iterator is exhausted.
Result ==
    [cursor         |-> processedState.lastSuccessfulCursor,
     processedRepos |-> processedState.processedRepos,
     processedCount |-> processedCount,
     isComplete     |-> TRUE]

Next ==
    \/ Invoke
    \/ FetchPageOk
    \/ FetchPageFail
    \/ NextRepo
    \/ AggregateOk
    \/ AggregateFail
    \/ ProcessResult
    \/ WriteRowFail
    \/ ProbeContinue
    \/ ProbeExhausted
    \/ IteratorDone
    \/ Sleep

Spec == Init /\ [][Next]_vars

\* ------------------------------------------------------- the retry delays
\* Runs against a small organization with the delay options set (or left
\* unset: NULL) on the command line.
RetryInit ==
    /\ orgSize \in 0..1
    /\ opts \in [pageSize : {1},
                 retryMaxAttempts : 1..MaxAttempts,
                 retrySuccessThreshold : {1},
                 rateLimitCheckInterval : {1},
                 retryInitialDelay : 0..MaxDelay,
                 retryMaxDelay : 0..MaxDelay,
                 retryBackoffFactor : 0..MaxFactor]
    /\ stateFile = Absent
    /\ resumeFromLastSave = FALSE
    /\ StoreStart
    /\ ShapeStart
    /\ AsideStart
    /\ AnalysisStart
    /\ Start

RetrySpec == RetryInit /\ [][Next]_vars

\* ------------------------------------------------ using the state module
\* A process calls initializeState once.
InitializeStateCall ==
    /\ spc = "start"
    /\ LET r == InitializeState(stateFile, resumeFromLastSave)
       IN  /\ state' = r.processedState
           /\ resumeFromLastState' = r.resumeFromLastState
           /\ spc' = IF r.threw THEN "threw" ELSE "ready"
    /\ UNCHANGED <<orgSize, opts, stateFile, resumeFromLastSave, lastCall, clock,
                   applied, tasks, orphans, subFetches, result, aside,
                   processedState, retry, runRetryCount, pc, iter, repo,
                   processedCount, rows, thrown, failures, invocations,
                   sleeps, slept, pagesFetched, emittedAtFail>>

\* It then calls updateState with the arguments of its choice, from whatever
\* state initializeState handed out; the write of the file ends in one of
\* WriteOutcomes.
UpdateStateCall ==
    /\ spc = "ready"
    /\ \E repoName \in 0..MaxNames, newCursor \in 0..MaxCursors,
          lastSuccessfulCursor \in 0..MaxCursors, outcome \in WriteOutcomes :
          LET st    == UpdateState(state, repoName, newCursor,
                                   lastSuccessfulCursor, clock + 1)
              saved == SaveLastState(stateFile, st, outcome)
          IN  /\ state' = st
              /\ stateFile' = saved.file
              /\ lastCall' = [repoName |-> repoName, newCursor |-> newCursor,
                              lastSuccessfulCursor |-> lastSuccessfulCursor,
                              outcome |-> outcome, threw |-> saved.threw,
                              before |-> state, file |-> stateFile]
    /\ clock' = clock + 1
    /\ spc' = "updated"
    /\ UNCHANGED <<orgSize, opts, resumeFromLastSave, resumeFromLastState,
                   applied, tasks, orphans, subFetches, result, aside,
                   processedState, retry, runRetryCount, pc, iter, repo,
                   processedCount, rows, thrown, failures, invocations,
                   sleeps, slept, pagesFetched, emittedAtFail>>

\* A later process calls initializeState with resume requested against the
\* file the updateState call left.
ResumeCall ==
    /\ spc = "updated"
    /\ LET r == InitializeState(stateFile, TRUE)
       IN  /\ state' = r.processedState
           /\ resumeFromLastState' = r.resumeFromLastState
           /\ spc' = IF r.threw THEN "threw" ELSE "resumed"
    /\ UNCHANGED <<orgSize, opts, stateFile, resumeFromLastSave, lastCall, clock,
                   applied, tasks, orphans, subFetches, result, aside,
                   processedState, retry, runRetryCount, pc, iter, repo,
                   processedCount, rows, thrown, failures, invocations,
                   sleeps, slept, pagesFetched, emittedAtFail>>

StoreNext ==
    \/ InitializeStateCall
    \/ UpdateStateCall
    \/ ResumeCall

\* Any state file on disk, either resume option, no engine run.
StoreInit ==
    /\ orgSize = 0
    /\ opts = [pageSize |-> 1, retryMaxAttempts |-> 1,
               retrySuccessThreshold |-> 1, rateLimitCheckInterval |-> 1,
               retryInitialDelay |-> NULL, retryMaxDelay |-> NULL,
               retryBackoffFactor |-> NULL]
    /\ stateFile \in StoredFiles
    /\ resumeFromLastSave \in BOOLEAN
    /\ StoreStart
    /\ ShapeStart
    /\ AsideStart
    /\ AnalysisStart
    /\ Start

StoreSpec == StoreInit /\ [][StoreNext]_vars

\* ------------------------------------------------- applying the row shaper
\* What the engine and the state module hold while the shaper is applied.
engine == <<orgSize, opts, store, processedState, retry, runRetryCount, pc,
            iter, repo, processedCount, rows, thrown, failures, invocations,
            sleeps, slept, pagesFetched, emittedAtFail,
            tasks, orphans, subFetches, result, aside>>

\* mapToRepoStatsResult applied to a snapshot and aggregates: few items, with
\* or without a number of collaborators that brings the record count to just
\* under the limit, any of DiskSizes.
MapToRepoStatsResultCall ==
    /\ applied.fn = "none"
    /\ \E c \in Tallies, extra \in {0, RecordLimit - MaxItems}, d \in DiskSizes :
          LET r   == Snapshot(1, c, extra, d)
              out == MapToRepoStatsResult(r, IssueStatsOf(c), PrStatsOf(c))
          IN  applied' = [fn |-> "mapToRepoStatsResult", repo |-> r,
                          issueStats |-> IssueStatsOf(c),
                          prStats |-> PrStatsOf(c),
                          threw |-> out.threw, row |-> out.row]
    /\ UNCHANGED engine

\* analyzeIssues applied to the issues of a repository, embedded with a
\* page size of first.
AnalyzeIssuesCall ==
    /\ applied.fn = "none"
    /\ \E all \in SeqsUpTo(IssueNodes, MaxNodes), first \in 1..MaxPageSize :
          applied' = [fn |-> "analyzeIssues", all |-> all,
                      connection |-> Connection(all, first),
                      out |-> AnalyzeIssues(Connection(all, first), all)]
    /\ UNCHANGED engine

\* analyzePullRequests applied to the pull requests of a repository.
AnalyzePullRequestsCall ==
    /\ applied.fn = "none"
    /\ \E all \in SeqsUpTo(PullRequestNodes, MaxNodes), first \in 1..MaxPageSize :
          applied' = [fn |-> "analyzePullRequests", all |-> all,
                      connection |-> Connection(all, first),
                      out |-> AnalyzePullRequests(Connection(all, first), all)]
    /\ UNCHANGED engine

\* createBatchFiles applied to an iterator of distinct repositories.
CreateBatchFilesCall ==
    /\ applied.fn = "none"
    /\ \E repos \in Arrangements(1..MaxRepos), batchSize \in 1..MaxBatchSize :
          applied' = [fn |-> "createBatchFiles", repos |-> repos,
                      batchSize |-> batchSize,
                      files |-> CreateBatchFiles(repos, batchSize)]
    /\ UNCHANGED engine

\* updateState applied to a state the caller hands it; the write of the
\* file ends in one of WriteOutcomes.
UpdateStateApplied ==
    /\ applied.fn = "none"
    /\ \E st \in HandedStates, repoName \in 0..MaxNames,
          newCursor \in 0..MaxCursors, lastSuccessfulCursor \in 0..MaxCursors,
          outcome \in WriteOutcomes :
          LET after == UpdateState(st, repoName, newCursor,
                                   lastSuccessfulCursor, clock + 1)
          IN  /\ applied' = [fn |-> "updateState", before |-> st,
                             repoName |-> repoName, newCursor |-> newCursor,
                             lastSuccessfulCursor |-> lastSuccessfulCursor,
                             outcome |-> outcome, after |-> after]
              /\ stateFile' = SaveLastState(stateFile, after, outcome).file
    /\ clock' = clock + 1
    /\ UNCHANGED <<orgSize, opts, resumeFromLastSave, state,
                   resumeFromLastState, spc, lastCall, tasks, orphans,
                   subFetches, result, aside, processedState, retry,
                   runRetryCount, pc, iter, repo, processedCount, rows,
                   thrown, failures, invocations, sleeps, slept, pagesFetched,
                   emittedAtFail>>

ShapeNext ==
    \/ UpdateStateApplied
    \/ CreateBatchFilesCall
    \/ AnalyzeIssuesCall
    \/ AnalyzePullRequestsCall
    \/ MapToRepoStatsResultCall

ShapeInit ==
    /\ orgSize = 0
    /\ opts = [pageSize |-> 1, retryMaxAttempts |-> 1,
               retrySuccessThreshold |-> 1, rateLimitCheckInterval |-> 1,
               retryInitialDelay |-> NULL, retryMaxDelay |-> NULL,
               retryBackoffFactor |-> NULL]
    /\ stateFile = Absent
    /\ resumeFromLastSave = FALSE
    /\ StoreStart
    /\ ShapeStart
    /\ AsideStart
    /\ AnalysisStart
    /\ Start

ShapeSpec == ShapeInit /\ [][ShapeNext]_vars

\* --------------------------------------------------- the batch retry loop
\* One iteration of the attempt loop: the pass over currentFileNames, then
\* break (and the summary is returned) or the next iteration.
Pass ==
    /\ ~batches.returned
    /\ batches.attempt <= batches.maxAttempts
    /\ \E installed \in BOOLEAN,
          outcome \in [1..Len(batches.currentFileNames) -> Outcomes] :
          LET last    == RunRepoStatsForBatches(batches.currentFileNames,
                                                installed, outcome)
              results == Append(batches.results, last)
              retried == batches.totalRetried +
                           (IF batches.attempt > 1 THEN last.successCount
                            ELSE 0)
              break   == \/ last.filesToRetry = <<>>
                         \/ batches.attempt = batches.maxAttempts
          IN  batches' = [batches EXCEPT
                  !.results = results,
                  !.totalRetried = retried,
                  !.inputs = Append(@, batches.currentFileNames),
                  !.returned = break,
                  !.summary = IF break THEN Summary(results, retried) ELSE @,
                  !.currentFileNames = IF break THEN @ ELSE last.filesToRetry,
                  !.attempt = IF break THEN @ ELSE @ + 1]
    /\ UNCHANGED <<orgSize, opts, store, applied, tasks, orphans, subFetches,
                   result, processedState, retry, runRetryCount, pc, iter,
                   repo, processedCount, rows, thrown, failures, invocations,
                   sleeps, slept, pagesFetched, emittedAtFail, probe, ticks>>

BatchNext ==
    \/ Pass

\* run() found between one and MaxFiles batch files and allows between one
\* and MaxAttempts passes.
BatchInit ==
    /\ orgSize = 0
    /\ opts = [pageSize |-> 1, retryMaxAttempts |-> 1,
               retrySuccessThreshold |-> 1, rateLimitCheckInterval |-> 1,
               retryInitialDelay |-> NULL, retryMaxDelay |-> NULL,
               retryBackoffFactor |-> NULL]
    /\ stateFile = Absent
    /\ resumeFromLastSave = FALSE
    /\ StoreStart
    /\ ShapeStart
    /\ AnalysisStart
    /\ ProbeStart
    /\ SinkStart
    /\ \E n \in 1..MaxFiles, maxAttempts \in 1..MaxAttempts :
          batches = Called([i \in 1..n |-> BatchFile(i)], maxAttempts)
    /\ Start

BatchSpec == BatchInit /\ [][BatchNext]_vars

\* ------------------------------------------------------- time passing
\* Half a minute ends, wherever the run is.
HalfMinutePasses ==
    /\ Len(ticks) < MaxTicks
    /\ ticks' = Append(ticks, invocations)
    /\ UNCHANGED <<orgSize, opts, store, applied, tasks, orphans, subFetches,
                   result, processedState, retry, runRetryCount, pc, iter,
                   repo, processedCount, rows, thrown, failures, invocations,
                   sleeps, slept, pagesFetched, emittedAtFail, probe, batches>>

SinkNext ==
    \/ HalfMinutePasses
    \/ Next

\* Runs of at most two attempts against a small organization.
SinkInit ==
    /\ orgSize \in 1..2
    /\ opts \in [pageSize : {1},
                 retryMaxAttempts : 1..2,
                 retrySuccessThreshold : {1},
                 rateLimitCheckInterval : 1..2,
                 retryInitialDelay : {NULL},
                 retryMaxDelay : {NULL},
                 retryBackoffFactor : {NULL}]
    /\ stateFile = Absent
    /\ resumeFromLastSave = FALSE
    /\ StoreStart
    /\ ShapeStart
    /\ AsideStart
    /\ AnalysisStart
    /\ Start

SinkSpec == SinkInit /\ [][SinkNext]_vars

\* ------------------------------------------------- probing the rate limits
\* checkRateLimits is called with the cap of the process and the governor
\* decides on its result; streak counts the exhausted probes in a row.
CheckRateLimitsCall ==
    /\ probe.calls < MaxProbes
    /\ \E response \in RateLimitResponses :
          LET out == CheckRateLimits(response, probe.maxRetries)
          IN  probe' = [maxRetries |-> probe.maxRetries,
                        calls |-> probe.calls + 1,
                        streak |-> IF Exhausted(response)
                                   THEN probe.streak + 1 ELSE 0,
                        response |-> response,
                        result |-> out,
                        directive |-> CheckAndHandleRateLimits(out)]
    /\ UNCHANGED <<orgSize, opts, store, applied, tasks, orphans, subFetches,
                   result, processedState, retry, runRetryCount, pc, iter,
                   repo, processedCount, rows, thrown, failures, invocations,
                   sleeps, slept, pagesFetched, emittedAtFail, ticks, batches>>

ProbeNext ==
    \/ CheckRateLimitsCall

\* A process probing with the default cap of 5 or with a smaller one.
ProbeInit ==
    /\ orgSize = 0
    /\ opts = [pageSize |-> 1, retryMaxAttempts |-> 1,
               retrySuccessThreshold |-> 1, rateLimitCheckInterval |-> 1,
               retryInitialDelay |-> NULL, retryMaxDelay |-> NULL,
               retryBackoffFactor |-> NULL]
    /\ stateFile = Absent
    /\ resumeFromLastSave = FALSE
    /\ StoreStart
    /\ ShapeStart
    /\ AnalysisStart
    /\ SinkStart
    /\ BatchStart
    /\ probe \in [maxRetries : 0..MaxCap \cup {DefaultMaxRetries}, calls : {0},
                  streak : {0},
                  response : {[kind |-> "none", graphql |-> 0, core |-> 0]},
                  result : {NoRateLimitResult}, directive : {"none"}]
    /\ Start

ProbeSpec == ProbeInit /\ [][ProbeNext]_vars

\* ------------------------------------------- the concurrent aggregations
\* processRepoStats in steps: both aggregations are started, each receives
\* its sub-pages one request at a time, Promise.all settles.  `left` is the
\* number of sub-pages an aggregation has still to receive, the requested one
\* included.

\* The two aggregations.
Kinds == {"issues", "pullRequests"}

Other(k) == IF k = "issues" THEN "pullRequests" ELSE "issues"

\* An aggregation as its call leaves it: returned already when nothing is to
\* be fetched, else waiting for its first sub-page.
Started(n) == [status |-> IF n = 0 THEN "done" ELSE "fetching", left |-> n]

\* The record of a sub-page request: the attempt whose aggregation issued it,
\* the attempt withRetry was in, whether processRepoStats awaited it.
Request(of, live) == [of |-> of, when |-> retry.attempt, live |-> live]

\* The aggregates of a repository without issues and pull requests.
NoStats == [f \in CountFields |-> 0]

\* Disk sizes of the repositories of a run: none, below and above one MB.
RunDiskSizes == {NotFinite, Kb(KbPerMb - 1), Kb(KbPerMb + 1)}

\* Promise.all([analyzeIssues(..), analyzePullRequests(..)]): both calls run
\* up to their first await, so both first sub-page requests are out.
StartAnalysis ==
    /\ pc = "aggregate"
    /\ \E i \in 0..MaxSubPages, p \in 0..MaxSubPages, d \in RunDiskSizes :
          tasks' = [issues |-> Started(i), pullRequests |-> Started(p),
                    diskUsage |-> d]
    /\ subFetches' = subFetches \cup
          (IF \E k \in Kinds : tasks'[k].status = "fetching"
           THEN {Request(retry.attempt, TRUE)} ELSE {})
    /\ pc' = "analyzing"
    /\ UNCHANGED <<aside, orgSize, opts, store, applied, orphans, result,
                   processedState, retry, runRetryCount, iter, repo,
                   processedCount, rows, thrown, failures, invocations,
                   sleeps, slept, pagesFetched, emittedAtFail>>

\* An aggregation receives a sub-page, counts its nodes and requests the next
\* one, or returns after the last.
SubPageOk ==
    /\ pc = "analyzing"
    /\ \E k \in Kinds :
          /\ tasks[k].status = "fetching"
          /\ tasks' = [tasks EXCEPT ![k] =
                         IF tasks[k].left = 1
                         THEN [status |-> "done", left |-> 0]
                         ELSE [status |-> "fetching", left |-> tasks[k].left - 1]]
          /\ subFetches' = subFetches \cup
                (IF tasks[k].left > 1 THEN {Request(retry.attempt, TRUE)} ELSE {})
    /\ UNCHANGED <<aside, orgSize, opts, store, applied, orphans, result,
                   processedState, retry, runRetryCount, pc, iter, repo,
                   processedCount, rows, thrown, failures, invocations,
                   sleeps, slept, pagesFetched, emittedAtFail>>

\* What becomes of the aggregations when one of them throws: Promise.all
\* rejects, the other one keeps running unawaited.
Orphaned(k) ==
    IF tasks[Other(k)].status = "fetching"
    THEN {[of |-> retry.attempt, kind |-> Other(k), left |-> tasks[Other(k)].left]}
    ELSE {}

\* Mutant: the error is handled like one of the loop body, restoring the cursor.
SubPageFail_Restores ==
    /\ pc = "analyzing"
    /\ \E k \in Kinds :
          /\ tasks[k].status = "fetching"
          /\ orphans' = orphans \cup Orphaned(k)
          /\ tasks' = [tasks EXCEPT !.issues = Idle, !.pullRequests = Idle]
    /\ processedState' = RestoreCursor(processedState)
    /\ Catch("aggregation")
    /\ UNCHANGED <<aside, orgSize, opts, store, applied, subFetches, result, iter, repo,
                   processedCount, rows, invocations, sleeps, slept,
                   pagesFetched>>

\* A sub-page request fails: the aggregation throws, Promise.all rejects and
\* the error leaves processRepoStats and the for-await of processRepositories.
SubPageFail ==
    /\ pc = "analyzing"
    /\ \E k \in Kinds :
          /\ tasks[k].status = "fetching"
          /\ orphans' = orphans \cup Orphaned(k)
          /\ tasks' = [tasks EXCEPT !.issues = Idle, !.pullRequests = Idle]
    /\ processedState' = processedState
    /\ Catch("aggregation")
    /\ UNCHANGED <<aside, orgSize, opts, store, applied, subFetches, result, iter, repo,
                   processedCount, rows, invocations, sleeps, slept,
                   pagesFetched>>

\* Mutant: the row is shaped as soon as one aggregation has returned.
Join_Any ==
    /\ pc = "analyzing"
    /\ \E k \in Kinds : tasks[k].status = "done"
    /\ ~MapToRepoStatsResult(Snapshot(repo, NoStats, 0, tasks.diskUsage),
                             IssueStatsOf(NoStats), PrStatsOf(NoStats)).threw
    /\ result' = MapToRepoStatsResult(Snapshot(repo, NoStats, 0, tasks.diskUsage),
                     IssueStatsOf(NoStats), PrStatsOf(NoStats)).row
    /\ processedState' = processedState
    /\ pc' = "body"
    /\ UNCHANGED <<aside, orgSize, opts, store, applied, tasks, orphans, subFetches,
                   retry, runRetryCount, thrown, failures, emittedAtFail,
                   iter, repo, processedCount, rows, invocations, sleeps,
                   slept, pagesFetched>>

\* Promise.all resolves: mapToRepoStatsResult shapes the row, which is
\* yielded to the loop body, or throws out of processRepoStats.
Join ==
    /\ pc = "analyzing"
    /\ \A k \in Kinds : tasks[k].status = "done"
    /\ LET out == MapToRepoStatsResult(
                      Snapshot(repo, NoStats, 0, tasks.diskUsage),
                      IssueStatsOf(NoStats), PrStatsOf(NoStats))
       IN  IF out.threw
           THEN /\ processedState' = processedState
                /\ Catch("shape")
                /\ result' = result
           ELSE /\ result' = out.row
                /\ processedState' = processedState
                /\ pc' = "body"
                /\ UNCHANGED <<retry, runRetryCount, thrown, failures,
                               emittedAtFail>>
    /\ UNCHANGED <<aside, orgSize, opts, store, applied, tasks, orphans, subFetches,
                   iter, repo, processedCount, rows, invocations, sleeps,
                   slept, pagesFetched>>

\* An unawaited aggregation receives a sub-page and requests the next one,
\* or returns after the last; nobody receives what it returns.
OrphanPageOk ==
    /\ \E o \in orphans :
          /\ orphans' = (orphans \ {o}) \cup
                (IF o.left > 1 THEN {[o EXCEPT !.left = @ - 1]} ELSE {})
          /\ subFetches' = subFetches \cup
                (IF o.left > 1 THEN {Request(o.of, FALSE)} ELSE {})
    /\ UNCHANGED <<aside, orgSize, opts, store, applied, tasks, result,
                   processedState, retry, runRetryCount, pc, iter, repo,
                   processedCount, rows, thrown, failures, invocations,
                   sleeps, slept, pagesFetched, emittedAtFail>>

\* An unawaited aggregation's request fails: its rejection is dropped by the
\* already rejected Promise.all.
OrphanPageFail ==
    /\ \E o \in orphans : orphans' = orphans \ {o}
    /\ UNCHANGED <<aside, orgSize, opts, store, applied, tasks, subFetches, result,
                   processedState, retry, runRetryCount, pc, iter, repo,
                   processedCount, rows, thrown, failures, invocations,
                   sleeps, slept, pagesFetched, emittedAtFail>>

AnalysisNext ==
    \/ Invoke
    \/ FetchPageOk
    \/ FetchPageFail
    \/ NextRepo
    \/ StartAnalysis
    \/ SubPageOk
    \/ SubPageFail
    \/ Join
    \/ OrphanPageFail
    \/ OrphanPageOk
    \/ ProcessResult
    \/ WriteRowFail
    \/ ProbeContinue
    \/ ProbeExhausted
    \/ IteratorDone
    \/ Sleep

\* Runs of at most two attempts against a small organization, the delay
\* options left unset.
AnalysisInit ==
    /\ orgSize \in 1..2
    /\ opts \in [pageSize : 1..2,
                 retryMaxAttempts : 1..2,
                 retrySuccessThreshold : {1},
                 rateLimitCheckInterval : {1},
                 retryInitialDelay : {NULL},
                 retryMaxDelay : {NULL},
                 retryBackoffFactor : {NULL}]
    /\ stateFile = Absent
    /\ resumeFromLastSave = FALSE
    /\ StoreStart
    /\ ShapeStart
    /\ AsideStart
    /\ AnalysisStart
    /\ Start

AnalysisSpec == AnalysisInit /\ [][AnalysisNext]_vars

\* ---------------------------------------------------------------- claims
RowNames == {rows[i].name : i \in DOMAIN rows}

\* The position of a cursor in the name-ordered listing: cursors are ordered
\* as the repository names they point at, the null cursor before all.
CursorPos(c) == c

\* The run is inside an attempt: no failure since the attempt began.
InAttempt == pc \in {"walk", "aggregate", "body", "probe", "returned"}

\* The last invocation failed and its error has reached withRetry.
ErrorAtEnvelope == pc \in {"sleeping", "rejected"}

\* C1: over all attempts of one retry-wrapped run, no repository name is
\* written as a row twice.
NoDuplicateRows ==
    \A i, j \in DOMAIN rows : i # j => rows[i].name # rows[j].name

\* C1 witness: rows were written by two different attempts of the run.
RowsFromTwoAttempts ==
    \E i, j \in DOMAIN rows : rows[i].attempt # rows[j].attempt

\* C2 (as claimed): whenever the retry-wrapped run finishes successfully, the
\* rows written over all attempts name exactly the repositories of the
\* organization listing.
CompleteOnSuccess ==
    pc = "returned" => RowNames = 1..orgSize

\* C3 (as claimed): after an attempt failed having last emitted r_k, the next
\* attempt's first page is the page that contains r_k, and the run writes
\* every repository after r_k.
ResumeAtLastEmitted ==
    /\ ( /\ pc \in {"walk", "aggregate", "body"}
         /\ retry.attempt > 1
         /\ pagesFetched = 1
         /\ processedCount = 0
         /\ processedState.lastProcessedRepo # NULL )
       => processedState.lastProcessedRepo \in Range(iter.nodes)
    /\ pc = "returned"
       => \A k \in emittedAtFail \ {NULL} :
            \A r \in 1..orgSize : r > k => r \in RowNames

\* C4 (as claimed): whenever an attempt ends by throwing, current cursor equals
\* last successful cursor when the error reaches the retry envelope.
CursorRevertedOnFailure ==
    ErrorAtEnvelope =>
        processedState.cursor = processedState.lastSuccessfulCursor

\* C5: a repository name is in processedRepos if and only if a row for it was
\* appended to the sink.
ProcessedSetExact ==
    processedState.processedRepos = RowNames

\* C5 witness: a write has just failed after earlier rows were written, and
\* the repository whose write failed is not marked.
FailedWriteLeftUnmarked ==
    /\ ErrorAtEnvelope
    /\ failures[Len(failures)] = "write"
    /\ rows # <<>>
    /\ repo \notin processedState.processedRepos

\* C6: rows are written in strictly ascending repository-name order, within an
\* attempt and from one attempt to the next.
RowsAscending ==
    \A i, j \in DOMAIN rows : i < j => rows[i].name < rows[j].name

\* C6 witness: a row written after a retry directly follows a row written
\* before the fault.
FirstRowAfterRetry ==
    \E i \in DOMAIN rows :
        i < Len(rows) /\ rows[i + 1].attempt > rows[i].attempt

\* C7: over the successive row emissions of a run, retries included, the
\* value given to lastSuccessfulCursor never moves to an earlier position.
CursorMonotone ==
    \A i, j \in DOMAIN rows :
        i < j => CursorPos(rows[i].cursor) <= CursorPos(rows[j].cursor)

\* C7 witness: an emission after a retry moved lastSuccessfulCursor forward.
CursorAdvancedAfterRetry ==
    \E i \in DOMAIN rows :
        /\ i < Len(rows)
        /\ rows[i + 1].attempt > rows[i].attempt
        /\ CursorPos(rows[i + 1].cursor) > CursorPos(rows[i].cursor)

\* C8: in every reachable state lastSuccessfulCursor is null or denotes a
\* position not beyond the current cursor.
LastSuccessfulNotBeyondCurrent ==
    \/ processedState.lastSuccessfulCursor = NULL
    \/ /\ processedState.cursor # NULL
       /\ CursorPos(processedState.lastSuccessfulCursor)
            <= CursorPos(processedState.cursor)

\* C8 witness: in a retry attempt the current cursor has moved ahead of a
\* non-null lastSuccessfulCursor.
CurrentAheadOfLastSuccessful ==
    /\ retry.attempt > 1
    /\ processedState.lastSuccessfulCursor # NULL
    /\ CursorPos(processedState.lastSuccessfulCursor)
         < CursorPos(processedState.cursor)

\* C9: withRetry invokes the operation at most maxAttempts times; when all of
\* them fail it rejects with the attempt count and the message of the last
\* failure, having slept and notified only between attempts; when an
\* invocation succeeds it returns without a further invocation.
RetryExhaustion ==
    LET max == RetryConfigOf(opts).maxAttempts
    IN  /\ invocations <= max
        /\ pc = "rejected" =>
             /\ invocations = max
             /\ Len(failures) = max
             /\ thrown.attempts = max
             /\ thrown.message = failures[Len(failures)]
             /\ sleeps = max - 1
             /\ runRetryCount = max - 1
        /\ pc = "returned" =>
             /\ invocations = Len(failures) + 1
             /\ sleeps = Len(failures)
             /\ runRetryCount = Len(failures)

\* C9 witness: the envelope gave up after failures with different messages.
GaveUpAfterDifferentFailures ==
    /\ pc = "rejected"
    /\ Len(failures) >= 2
    /\ failures[1] # failures[Len(failures)]

\* C10 (as claimed): with success threshold k, after k consecutive successful
\* actions (rows written since the last failure) the retry counter is 0.
RetryCounterResetAfterSuccesses ==
    (InAttempt /\ processedCount >= opts.retrySuccessThreshold)
        => retry.retryCount = 0

RECURSIVE Pow(_, _)
Pow(b, e) == IF e = 0 THEN 1 ELSE b * Pow(b, e - 1)

\* C11 (as claimed): the k-th sleep of a run lasts
\* min(initialDelay * backoffFactor^(k-1), maxDelay), so no sleep is longer
\* than maxDelay, whatever the configuration.
BackoffLaw ==
    LET cfg == RetryConfigOf(opts)
    IN  \A k \in DOMAIN slept :
            /\ slept[k] = Min(cfg.initialDelayMs * Pow(cfg.backoffFactor, k - 1),
                              cfg.maxDelayMs)
            /\ slept[k] <= cfg.maxDelayMs

\* ------------------------------------------------- claims: the state module
\* The file initializeState was called against holds a JSON object.
StoredObject == stateFile.kind = "json"

\* initializeState's call has ended, by a return or by an error, and nothing
\* has touched the file since.
Initialized == spc \in {"ready", "threw"}

\* C12 (as claimed): a start against a stored state whose completedSuccessfully
\* is true emits no row and fetches no repository page.
ResumeNoOp ==
    (StoredObject /\ stateFile.data.completedSuccessfully)
        => (rows = <<>> /\ pagesFetched = 0)

ResumeExactly ==
    Initialized =>
        /\ spc = "ready"
        /\ resumeFromLastState <=>
              (StoredObject /\ ~stateFile.data.completedSuccessfully
                 /\ resumeFromLastSave)
        /\ resumeFromLastState =>
              /\ state.currentCursor = stateFile.data.currentCursor
              /\ state.lastSuccessfulCursor = stateFile.data.lastSuccessfulCursor
              /\ state.lastProcessedRepo = stateFile.data.lastProcessedRepo
              /\ state.processedRepos = stateFile.data.processedRepos

\* C15 (as claimed): an absent, an unreadable and an unparsable state file all
\* make initializeState return the default state and resume = false, without
\* an error, whatever the resume option.
DamagedLikeAbsent ==
    (Initialized /\ ~StoredObject)
        => /\ spc = "ready"
           /\ ~resumeFromLastState
           /\ state = DefaultState

\* C16: a stored state without a processedRepos array, not completed, resume
\* requested: initializeState resumes with no processed repository and the
\* stored cursors, so that the walk starts at the stored cursor.
MalformedReposCoerced ==
    (Initialized /\ StoredObject /\ ~stateFile.data.processedReposIsArray
       /\ ~stateFile.data.completedSuccessfully /\ resumeFromLastSave)
        => /\ spc = "ready"
           /\ resumeFromLastState
           /\ state.processedRepos = <<>>
           /\ state.currentCursor = stateFile.data.currentCursor
           /\ state.lastSuccessfulCursor = stateFile.data.lastSuccessfulCursor
           /\ OrElse(state.currentCursor, state.lastSuccessfulCursor)
                = OrElse(stateFile.data.currentCursor,
                         stateFile.data.lastSuccessfulCursor)

\* C16 witness: such a file with both cursors and a last processed repository.
ResumedWithoutRepos ==
    /\ spc = "ready"
    /\ resumeFromLastState
    /\ ~stateFile.data.processedReposIsArray
    /\ state.currentCursor # NULL
    /\ state.lastSuccessfulCursor # NULL
    /\ state.lastProcessedRepo # NULL

\* An updateState call has ended; lastCall holds its arguments, the state it
\* was handed and the file it found.
Updated == spc = "updated"

\* C17 (as claimed): updateState sets currentCursor to newCursor whenever the
\* two differ, also when newCursor is null, and leaves it when they are equal.
CursorOverwritten ==
    Updated =>
        IF lastCall.newCursor # lastCall.before.currentCursor
        THEN state.currentCursor = lastCall.newCursor
        ELSE state.currentCursor = lastCall.before.currentCursor

\* C18: processedRepos never holds a name twice; updateState appends a
\* supplied name exactly when it is not yet a member and otherwise leaves the
\* sequence as it was.
NoNameTwice ==
    /\ \A i, j \in DOMAIN state.processedRepos :
          state.processedRepos[i] = state.processedRepos[j] => i = j
    /\ Updated =>
          LET before == lastCall.before.processedRepos
              name   == lastCall.repoName
          IN  IF name # NULL /\ name \notin Range(before)
              THEN state.processedRepos = Append(before, name)
              ELSE state.processedRepos = before

\* C18 witness: updateState was handed a name that was already the first of
\* two processed repositories.
PresentNameSupplied ==
    /\ Updated
    /\ Len(lastCall.before.processedRepos) = 2
    /\ lastCall.repoName = lastCall.before.processedRepos[1]

\* C19: when the write of the state file fails, updateState ends without an
\* error and the state holds the call's updates: the cursor, the last
\* successful cursor, the name appended and as last processed repository, and
\* the time of the call.
FailedSaveKeepsUpdates ==
    (Updated /\ lastCall.outcome # "written")
        => /\ ~lastCall.threw
           /\ lastCall.newCursor # NULL
                => state.currentCursor = lastCall.newCursor
           /\ lastCall.lastSuccessfulCursor # NULL
                => state.lastSuccessfulCursor = lastCall.lastSuccessfulCursor
           /\ lastCall.repoName # NULL
                => /\ lastCall.repoName \in Range(state.processedRepos)
                   /\ state.lastProcessedRepo = lastCall.repoName
           /\ state.lastUpdated = clock
           /\ state.lastUpdated > lastCall.before.lastUpdated

\* C19 witness: a call that changed every field failed to write, and the file
\* still holds an older object.
UpdatesOnlyInMemory ==
    /\ Updated
    /\ lastCall.outcome = "failed"
    /\ lastCall.newCursor # lastCall.before.currentCursor
    /\ lastCall.lastSuccessfulCursor # NULL
    /\ lastCall.repoName # NULL
    /\ lastCall.repoName \notin Range(lastCall.before.processedRepos)
    /\ state.currentCursor = lastCall.newCursor
    /\ StoredObject
    /\ stateFile.data # state

\* C20 (as claimed): when the org iterator terminates naturally the run is
\* marked complete exactly when at least one row was processed in it and the
\* current cursor is null.
CompletionMarking ==
    pc = "returned" =>
        (Result.isComplete <=>
            (processedCount > 0 /\ processedState.cursor = NULL))

\* ------------------------------------------------- claims: the row shaper
\* mapToRepoStatsResult returned a row.
Shaped == applied.fn = "mapToRepoStatsResult" /\ ~applied.threw

\* C21: the Record_Count of a row is the sum of its Collaborator_Count,
\* Protected_Branch_Count, twice its PR_Count, Milestone_Count, Issue_Count,
\* PR_Review_Comment_Count, Commit_Comment_Count, Issue_Comment_Count,
\* Issue_Event_Count, Release_Count and Project_Count.
RecordCountLaw ==
    Shaped =>
        LET row == applied.row
        IN  row.Record_Count =
              row.Collaborator_Count + row.Protected_Branch_Count
                + 2 * row.PR_Count + row.Milestone_Count + row.Issue_Count
                + row.PR_Review_Comment_Count + row.Commit_Comment_Count
                + row.Issue_Comment_Count + row.Issue_Event_Count
                + row.Release_Count + row.Project_Count

\* C21 witness: a row with pull requests and another count.
RowWithPullRequests ==
    /\ Shaped
    /\ applied.row.PR_Count = 1
    /\ applied.row.Issue_Event_Count = 1
    /\ applied.row.Record_Count = 3

\* C22: Migration_Issue is true exactly when Record_Count >= 60000 or
\* Repo_Size_mb > 1500.
MigrationLaw ==
    Shaped =>
        (applied.row.Migration_Issue <=>
            (applied.row.Record_Count >= 60000
               \/ applied.row.Repo_Size_mb > 1500))

\* C22 witness: 60000 records in 1500 MB, an issue by the records alone.
AtRecordLimit ==
    /\ Shaped
    /\ applied.row.Record_Count = 60000
    /\ applied.row.Repo_Size_mb = 1500
    /\ applied.row.Migration_Issue

\* analyzeIssues / analyzePullRequests has returned.
IssuesAnalyzed == applied.fn = "analyzeIssues"
PullsAnalyzed == applied.fn = "analyzePullRequests"

\* The sum of the values of a function over a set of its arguments; Total
\* below is the sum of f over every node of a connection.
RECURSIVE SumOver(_, _)
SumOver(S, v) ==
    IF S = {} THEN 0
    ELSE LET x == CHOOSE y \in S : TRUE IN v[x] + SumOver(S \ {x}, v)


\* C24: with an issue total above 0, issueCommentCount is the sum of the
\* comments and issueEventCount the sum of timeline - comments over all issue
\* nodes, embedded or fetched; with a total of 0 or less the three results
\* are 0 and no further page is fetched.
IssueAggregation ==
    IssuesAnalyzed =>
        LET Total(q, f(_)) == SumOver(DOMAIN q, [i \in DOMAIN q |-> f(q[i])])
            all == applied.all
            out == applied.out
            comments(n) == n.comments
            events(n)   == n.timeline - n.comments
        IN  IF applied.connection.totalCount > 0
            THEN /\ out.totalIssuesCount = applied.connection.totalCount
                 /\ out.issueCommentCount = Total(all, comments)
                 /\ out.issueEventCount = Total(all, events)
            ELSE /\ out.totalIssuesCount = 0
                 /\ out.issueCommentCount = 0
                 /\ out.issueEventCount = 0
                 /\ ~out.started
                 /\ out.fetched = <<>>

\* C24 witness: an issue beyond the embedded page changed both counts.
IssuesBeyondFirstPage ==
    /\ IssuesAnalyzed
    /\ Len(applied.connection.nodes) = 1
    /\ Len(applied.all) = 2
    /\ applied.all[2].comments = 1
    /\ applied.all[2].timeline = 2
    /\ applied.out.issueEventCount > applied.all[1].timeline - applied.all[1].comments

\* C25: for every pull-request node, embedded or fetched, the event count
\* grows by timeline - (comments + min(commits, 250)), unclamped;
\* prReviewCommentCount is the sum of the comments of each pull request's
\* first-page review nodes; with a total of 0 or less all results are 0.
PullRequestAggregation ==
    PullsAnalyzed =>
        LET Total(q, f(_)) == SumOver(DOMAIN q, [i \in DOMAIN q |-> f(q[i])])
            all == applied.all
            out == applied.out
            events(pr) == pr.timeline - (pr.comments + Min(pr.commits, 250))
            reviewComments(pr) ==
                Total(pr.reviews.nodes, LAMBDA c : c)
        IN  IF applied.connection.totalCount > 0
            THEN /\ out.issueEventCount = Total(all, events)
                 /\ out.prReviewCommentCount = Total(all, reviewComments)
            ELSE /\ out.issueEventCount = 0
                 /\ out.prReviewCommentCount = 0
                 /\ out.commitCommentCount = 0
                 /\ out.issueCommentCount = 0
                 /\ out.prReviewCount = 0

\* C25 witness: a fetched pull request with more than 250 commits, and a
\* negative event count in the end.
NegativeEventCount ==
    /\ PullsAnalyzed
    /\ Len(applied.connection.nodes) = 1
    /\ Len(applied.all) = 2
    /\ applied.all[2].commits > 250
    /\ applied.out.issueEventCount < 0

\* C29: the sub-pagination of issues and of pull requests starts exactly
\* when the embedded connection has a next page and an end cursor, from that
\* end cursor, so that it fetches no embedded node and every node of the
\* connection is counted once.
SubPaginationStart ==
    (IssuesAnalyzed \/ PullsAnalyzed) =>
        LET c   == applied.connection
            out == applied.out
            counted == [i \in DOMAIN c.nodes |-> i] \o out.fetched
        IN  /\ out.started <=>
                  (c.pageInfo.hasNextPage /\ c.pageInfo.endCursor # NULL)
            /\ out.started => out.cursor = c.pageInfo.endCursor
            /\ \A i \in DOMAIN out.fetched :
                  out.fetched[i] \notin DOMAIN c.nodes
            /\ \A i \in 1..Len(applied.all) :
                  Cardinality({k \in DOMAIN counted : counted[k] = i}) = 1

\* C29 witness: pull requests were fetched from the end cursor of a
\* one-node embedded page.
FetchedAfterEmbedded ==
    /\ PullsAnalyzed
    /\ applied.out.started
    /\ applied.out.cursor = 1
    /\ applied.out.fetched = <<2>>

\* ------------------------------------- claims: the concurrent aggregations
\* The message of the failure that reached withRetry last.
LastFailure == IF failures = <<>> THEN "" ELSE failures[Len(failures)]

\* A row for the repository at hand written by the attempt at hand.
RowOfThisAttempt(rs) ==
    \E i \in DOMAIN rs : rs[i].name = repo /\ rs[i].attempt = retry.attempt

JoinBeforeWrite ==
    [][/\ rows' # rows => \A k \in Kinds : tasks[k].status = "done"
       /\ (pc = "analyzing" /\ failures' = Append(failures, "aggregation")) =>
             /\ rows' = rows
             /\ ~RowOfThisAttempt(rows')
             /\ repo \notin processedState'.processedRepos]_vars

\* C27 witness: after the first repository's row, an aggregation of the
\* second repository failed in the same attempt.
AggregationFailedAfterRow ==
    /\ pc = "sleeping"
    /\ LastFailure = "aggregation"
    /\ Len(rows) = 1
    /\ rows[1].attempt = retry.attempt
    /\ repo = 2
    /\ repo \notin processedState.processedRepos

\* C28: every sub-page request is issued by an aggregation that
\* processRepoStats awaits, in the attempt that started the aggregation.
SiblingCancelled ==
    \A f \in subFetches : f.live /\ f.of = f.when

\* C30: no step of an aggregation, awaited or not, changes processedState;
\* lastSuccessfulCursor, lastProcessedRepo and processedRepos change only
\* in the loop body's step that appends a row.
AggregationFrame ==
    [][/\ (pc \in {"aggregate", "analyzing"} \/ orphans' # orphans) =>
             processedState' = processedState
       /\ (\/ processedState'.lastSuccessfulCursor # processedState.lastSuccessfulCursor
           \/ processedState'.lastProcessedRepo # processedState.lastProcessedRepo
           \/ processedState'.processedRepos # processedState.processedRepos) =>
             /\ pc = "body"
             /\ rows' = Append(rows, rows'[Len(rows')])
             /\ rows'[Len(rows')].name = repo]_vars

\* C30 witness: an aggregation failed with the cursor ahead of
\* lastSuccessfulCursor, its sibling went on fetching, and a row was
\* written before.
AggregatedAheadOfCursor ==
    /\ LastFailure = "aggregation"
    /\ \E f \in subFetches : ~f.live
    /\ Len(rows) = 1
    /\ processedState.cursor # processedState.lastSuccessfulCursor
    /\ processedState.processedRepos = {1}

\* ------------------------------------------------ claims: the rate limits
\* C31 (as claimed): the probe runs only after a row whose number in the run
\* is a multiple of rateLimitCheckInterval, and a run that was paused by
\* exhausted probes only and then returned has written a row for every
\* repository, none twice.
RateLimitGovernor ==
    /\ pc = "probe" => Len(rows) % opts.rateLimitCheckInterval = 0
    /\ ( /\ pc = "returned"
         /\ failures # <<>>
         /\ \A i \in DOMAIN failures : failures[i] = "rate limit" )
       => /\ RowNames = 1..orgSize
          /\ \A i, j \in DOMAIN rows : rows[i].name = rows[j].name => i = j

\* A probe that found the GraphQL quota used up.
ExhaustedProbe == probe.calls > 0 /\ Exhausted(probe.response)

\* C32 (as claimed): an exhausted probe is classified error exactly when the
\* number of exhausted probes in a row exceeds maxRetries, the governor then
\* throws instead of pausing; with fewer exhausted probes than maxRetries
\* the classification is warning.
FatalUpgrade ==
    ExhaustedProbe =>
        /\ probe.result.messageType = "error" <=> probe.streak > probe.maxRetries
        /\ probe.streak > probe.maxRetries => probe.directive = "fatal"
        /\ probe.streak < probe.maxRetries =>
              /\ probe.result.messageType = "warning"
              /\ probe.directive = "pause"

\* The remote answered that rate limiting is not enabled.
DisabledProbe == probe.calls > 0 /\ probe.response.kind = "disabled"

\* C33 (as claimed): on a remote without rate limiting the probe returns
\* 10^10 for both quotas, classified info, and the governor does not pause.
DisabledSentinelTenToTheTen ==
    DisabledProbe =>
        /\ probe.result.graphQLRemaining = [hi |-> 100000, lo |-> 0]
        /\ probe.result.apiRemainingRequest = [hi |-> 100000, lo |-> 0]
        /\ probe.result.messageType = "info"
        /\ probe.directive = "continue"

\* C33 (amended): on a remote without rate limiting the probe returns
\* 9999999999 = 10^10 - 1 for both quotas, classified info, and the governor
\* does not pause.
DisabledSentinel ==
    DisabledProbe =>
        /\ probe.result.graphQLRemaining = [hi |-> 99999, lo |-> 99999]
        /\ probe.result.apiRemainingRequest = [hi |-> 99999, lo |-> 99999]
        /\ probe.result.messageType = "info"
        /\ ~probe.result.slept
        /\ probe.directive = "continue"

\* C33 witness: after an exhausted probe, a probe of a remote without rate
\* limiting let the walk continue.
ContinuedOnDisabled ==
    /\ DisabledProbe
    /\ probe.calls = 2
    /\ probe.streak = 0
    /\ probe.directive = "continue"

\* --------------------------------------------------------- claims: the sink
\* C34 (as claimed): all rows of a run, whichever attempt wrote them, are in
\* one file, which begins with its only header row.
SingleSink ==
    LET files == Sink(rows)
    IN  /\ Cardinality(DOMAIN files) <= 1
        /\ \A f \in DOMAIN files :
              /\ files[f][1] = HeaderRow
              /\ \A i \in 2..Len(files[f]) : ~files[f][i].header
              /\ Len(files[f]) = Len(rows) + 1

\* ---------------------------------------------- claims: the batch retry loop
\* C35: processRepositoryBatches makes at most maxAttempts passes and none
\* after a pass that left no file to retry; every pass after the first
\* processes the retry files of the pass before it; in the summary
\* totalAttempts is the number of passes, totalSuccess the sum of their
\* success counts and remainingUnprocessed the number of retry files the last
\* pass left.
BatchRetryLoop ==
    LET results == batches.results
        passes  == Len(results)
    IN  /\ passes <= batches.maxAttempts
        /\ passes = Len(batches.inputs)
        /\ \A i \in 1..passes - 1 :
              /\ results[i].filesToRetry # <<>>
              /\ batches.inputs[i + 1] = results[i].filesToRetry
        /\ ~batches.returned =>
              /\ passes < batches.maxAttempts
              /\ passes > 0 =>
                    batches.currentFileNames = results[passes].filesToRetry
        /\ batches.returned =>
              /\ passes > 0
              /\ \/ results[passes].filesToRetry = <<>>
                 \/ passes = batches.maxAttempts
              /\ batches.summary.totalAttempts = passes
              /\ batches.summary.totalSuccess =
                    SumOver(1..passes, [i \in 1..passes |-> results[i].successCount])
              /\ batches.summary.remainingUnprocessed =
                    Len(results[passes].filesToRetry)

\* C35 witness: the first pass left two retry files, the second pass one of
\* them and was the last one allowed.
GaveUpWithRetryFile ==
    /\ batches.returned
    /\ batches.maxAttempts = 2
    /\ Len(batches.results) = 2
    /\ Len(batches.results[1].filesToRetry) = 2
    /\ batches.results[2].successCount = 1
    /\ batches.summary.remainingUnprocessed = 1

\* The files of a batch run one after the other.
RECURSIVE Concatenated(_)
Concatenated(files) ==
    IF files = <<>> THEN <<>>
    ELSE files[1] \o Concatenated(Tail(files))

\* C36: for n repositories and a batch size b >= 1 createBatchFiles writes
\* the files 1..ceil(n/b); read in that order they hold the repositories in
\* iteration order, each once; every file but the last holds b names and no
\* file is empty.
BatchPartition ==
    applied.fn = "createBatchFiles" =>
        LET n == Len(applied.repos)
            b == applied.batchSize
            files == applied.files
        IN  /\ Len(files) = (n + b - 1) \div b
            /\ Concatenated(files) = applied.repos
            /\ \A k \in 1..Len(files) - 1 : Len(files[k]) = b
            /\ \A k \in 1..Len(files) : files[k] # <<>>

\* C36 witness: three repositories in batches of two: a full file and a
\* last file with the repository left over.
LastBatchShort ==
    /\ applied.fn = "createBatchFiles"
    /\ applied.batchSize = 2
    /\ applied.repos = <<3, 1, 2>>
    /\ applied.files = <<(<<3, 1>>), (<<2>>)>>

\* initializeState with resume requested has returned after an updateState
\* call whose write succeeded; stateFile.data is the state that call
\* persisted.
Reloaded == spc = "resumed" /\ lastCall.outcome = "written"

\* C37 (as claimed): a state persisted by updateState, not completed, and
\* then loaded by initializeState with resume requested equals the persisted
\* state in the current cursor, the last successful cursor, the last
\* processed repository, processedRepos, lastUpdated and the output file
\* name.
StateRoundTrip ==
    (Reloaded /\ ~stateFile.data.completedSuccessfully)
        => /\ resumeFromLastState
           /\ state.currentCursor = stateFile.data.currentCursor
           /\ state.lastSuccessfulCursor = stateFile.data.lastSuccessfulCursor
           /\ state.lastProcessedRepo = stateFile.data.lastProcessedRepo
           /\ state.processedRepos = stateFile.data.processedRepos
           /\ state.lastUpdated = stateFile.data.lastUpdated
           /\ state.outputFileName = stateFile.data.outputFileName

\* Pull-request aggregates that agree with p in prReviewCommentCount and
\* have none or MaxItems of each other count.
PrStatsLike(p) ==
    [prReviewCommentCount : {p.prReviewCommentCount},
     commitCommentCount : {0, MaxItems}, issueEventCount : {0, MaxItems},
     issueCommentCount : {0, MaxItems}, prReviewCount : {0, MaxItems}]

\* C38: a run of the row shaper on the same snapshot and issue aggregates,
\* with pull-request aggregates that differ only in issueEventCount,
\* issueCommentCount, commitCommentCount or prReviewCount, ends the same way
\* with the same row; prReviewCommentCount is in the row, and PR_Review_Count
\* equals PR_Count.
RowIndependence ==
    applied.fn = "mapToRepoStatsResult" =>
        /\ \A q \in PrStatsLike(applied.prStats) :
              MapToRepoStatsResult(applied.repo, applied.issueStats, q)
                = [threw |-> applied.threw, row |-> applied.row]
        /\ ~applied.threw =>
              /\ applied.row.PR_Review_Comment_Count
                    = applied.prStats.prReviewCommentCount
              /\ applied.row.PR_Review_Count = applied.row.PR_Count

\* C38 witness: the pull requests' aggregates hold a review and an issue
\* event, and the row of the repository counts no record at all.
ReviewNotInRow ==
    /\ applied.fn = "mapToRepoStatsResult"
    /\ ~applied.threw
    /\ applied.prStats.prReviewCount = 1
    /\ applied.prStats.issueEventCount = 1
    /\ applied.row.PR_Review_Count = 0
    /\ applied.row.Record_Count = 0

\* The progress a stored object holds.
Progress(d) ==
    [currentCursor |-> d.currentCursor,
     lastSuccessfulCursor |-> d.lastSuccessfulCursor,
     lastProcessedRepo |-> d.lastProcessedRepo,
     processedRepos |-> d.processedRepos]

\* C39: against a loadable state file of a run that did not complete, and
\* with resume not requested, initializeState returns the default state and
\* resume = false; the updateState call that follows, when its write
\* succeeds, leaves a file holding the progress of that call alone.
FreshStartOverwrites ==
    /\ (spc = "ready" /\ ~resumeFromLastSave /\ StoredObject
            /\ ~stateFile.data.completedSuccessfully)
          => (state = DefaultState /\ ~resumeFromLastState)
    /\ (Updated /\ ~resumeFromLastSave /\ lastCall.file.kind = "json"
            /\ ~lastCall.file.data.completedSuccessfully
            /\ lastCall.outcome = "written")
          => /\ lastCall.before = DefaultState
             /\ StoredObject
             /\ Progress(stateFile.data) =
                   [currentCursor |-> lastCall.newCursor,
                    lastSuccessfulCursor |-> lastCall.lastSuccessfulCursor,
                    lastProcessedRepo |-> lastCall.repoName,
                    processedRepos |-> IF lastCall.repoName = NULL THEN <<>>
                                       ELSE <<lastCall.repoName>>]

\* C39 witness: the file held a cursor and two processed repositories; the
\* run that did not ask to resume has stored its first repository, and the
\* file now holds that one alone.
StoredProgressLost ==
    /\ Updated
    /\ ~resumeFromLastSave
    /\ lastCall.file.kind = "json"
    /\ ~lastCall.file.data.completedSuccessfully
    /\ lastCall.file.data.processedRepos = <<1, 2>>
    /\ lastCall.file.data.currentCursor = 1
    /\ lastCall.outcome = "written"
    /\ stateFile.data.processedRepos = <<2>>
    /\ stateFile.data.currentCursor = NULL

\* C40: an updateState call leaves completedSuccessfully and outputFileName
\* as they were; processedRepos before the call is a prefix of processedRepos
\* after it; and a call that sets lastProcessedRepo sets it to a member of
\* processedRepos after the call.
UpdateFrame ==
    applied.fn = "updateState" =>
        LET before == applied.before
            after  == applied.after
            n      == Len(before.processedRepos)
        IN  /\ after.completedSuccessfully = before.completedSuccessfully
            /\ after.outputFileName = before.outputFileName
            /\ n <= Len(after.processedRepos)
            /\ SubSeq(after.processedRepos, 1, n) = before.processedRepos
            /\ applied.repoName # NULL =>
                  after.lastProcessedRepo = applied.repoName
            /\ (applied.repoName # NULL
                    \/ after.lastProcessedRepo # before.lastProcessedRepo)
                  => after.lastProcessedRepo \in Range(after.processedRepos)

\* C40 witness: a completed run's state with an output file name and one
\* processed repository was handed over with a second name.
GrewAtTheEnd ==
    /\ applied.fn = "updateState"
    /\ applied.before.completedSuccessfully
    /\ applied.before.outputFileName = 1
    /\ applied.before.processedRepos = <<2>>
    /\ applied.repoName = 1
    /\ applied.after.processedRepos = <<2, 1>>
    /\ applied.after.lastProcessedRepo = 1
    /\ applied.after.completedSuccessfully
    /\ applied.after.outputFileName = 1

====
